---- MODULE Spec2Model ----
(***************************************************************************)
(* Authorization core of dash-nest: the ABAC/RBAC permission evaluator     *)
(* (AuthorizationService), the custom-claims synchronizer                  *)
(* (CustomClaimsService) and the guards that build and enforce the         *)
(* authorization context.                                                  *)
(***************************************************************************)
EXTENDS Integers, Sequences, FiniteSets, Bags, TLC

(***************************************************************************)
(* JavaScript values.  Every value is a record of the same four fields so  *)
(* that values of different JavaScript types stay comparable:              *)
(*   t    : "undef" | "null" | "bool" | "num" | "str" | "fn" | "arr" | "obj"*)
(*   n    : the number (or 0/1 for a boolean)                              *)
(*   s    : the string                                                     *)
(*   kids : the entries <<[k, v], ...>> of an object in insertion order,   *)
(*          or the elements of an array (k = "")                           *)
(***************************************************************************)
Undef == [t |-> "undef", n |-> 0, s |-> "", kids |-> <<>>]

Null == [t |-> "null", n |-> 0, s |-> "", kids |-> <<>>]

Bool(b) == [t |-> "bool", n |-> IF b THEN 1 ELSE 0, s |-> "", kids |-> <<>>]

Num(i) == [t |-> "num", n |-> i, s |-> "", kids |-> <<>>]

Str(x) == [t |-> "str", n |-> 0, s |-> x, kids |-> <<>>]

Fn == [t |-> "fn", n |-> 0, s |-> "", kids |-> <<>>]

Entry(key, val) == [k |-> key, v |-> val]

Obj(entries) == [t |-> "obj", n |-> 0, s |-> "", kids |-> entries]

Arr(elems) ==
  [t |-> "arr", n |-> 0, s |-> "",
   kids |-> [i \in 1..Len(elems) |-> Entry("", elems[i])]]

EmptyObj == Obj(<<>>)

\* obj[key]: the property's value, undefined when the property is absent
Get(o, key) ==
  IF o.t = "obj" /\ \E i \in 1..Len(o.kids) : o.kids[i].k = key
  THEN o.kids[CHOOSE i \in 1..Len(o.kids) : o.kids[i].k = key].v
  ELSE Undef

Has(o, key) == o.t = "obj" /\ \E i \in 1..Len(o.kids) : o.kids[i].k = key

\* obj[key] = val: an existing property keeps its position, a new one is appended
Put(o, key, val) ==
  IF Has(o, key)
  THEN Obj([i \in 1..Len(o.kids) |->
              IF o.kids[i].k = key THEN Entry(key, val) ELSE o.kids[i]])
  ELSE Obj(Append(o.kids, Entry(key, val)))

\* a === b (objects, arrays and functions compare by reference: a value read
\* from a credential or a request is never the same reference as another)
StrictEq(a, b) ==
  /\ a.t = b.t
  /\ a.t \in {"undef", "null", "bool", "num", "str"}
  /\ a.n = b.n
  /\ a.s = b.s

\* !v
Falsy(v) ==
  \/ v.t \in {"undef", "null"}
  \/ v.t = "bool" /\ v.n = 0
  \/ v.t = "num" /\ v.n = 0
  \/ v.t = "str" /\ v.s = ""

\* arr.includes(v)
Includes(arr, v) ==
  arr.t = "arr" /\ \E i \in 1..Len(arr.kids) : StrictEq(arr.kids[i].v, v)

(***************************************************************************)
(* Relational comparison (<, <=, >, >=) as ECMAScript defines it.          *)
(***************************************************************************)
\* the strings of the model in code-unit order
StrOrder == <<"", "${userId}", "20", "[object Object]", "abc", "u1", "u2">>

StrRank(x) ==
  IF \E i \in 1..Len(StrOrder) : StrOrder[i] = x
  THEN CHOOSE i \in 1..Len(StrOrder) : StrOrder[i] = x
  ELSE 0

NaN == [nan |-> TRUE, n |-> 0]

Number(i) == [nan |-> FALSE, n |-> i]

\* ToPrimitive(v, hint Number): an object becomes "[object Object]", an
\* empty array "", a function its (non-numeric) source text
ToPrimitive(v) ==
  CASE v.t = "obj" -> Str("[object Object]")
    [] v.t = "arr" -> Str("")
    [] v.t = "fn"  -> Str("abc")
    [] OTHER       -> v

\* ToNumber of a primitive
ToNumber(v) ==
  CASE v.t = "undef" -> NaN
    [] v.t = "null"  -> Number(0)
    [] v.t = "bool"  -> Number(v.n)
    [] v.t = "num"   -> Number(v.n)
    [] v.t = "str"   -> IF v.s = "" THEN Number(0)
                        ELSE IF v.s = "20" THEN Number(20)
                        ELSE NaN
    [] OTHER         -> NaN

\* a < b: "true", "false" or "undefined" (an operand is NaN)
JsLess(a, b) ==
  LET pa == ToPrimitive(a)
      pb == ToPrimitive(b)
  IN IF pa.t = "str" /\ pb.t = "str"
     THEN IF StrRank(pa.s) < StrRank(pb.s) THEN "true" ELSE "false"
     ELSE LET na == ToNumber(pa)
              nb == ToNumber(pb)
          IN IF na.nan \/ nb.nan THEN "undefined"
             ELSE IF na.n < nb.n THEN "true" ELSE "false"

JsLt(a, b) == JsLess(a, b) = "true"

JsGt(a, b) == JsLess(b, a) = "true"

JsLe(a, b) == JsLess(b, a) = "false"

JsGe(a, b) == JsLess(a, b) = "false"

(***************************************************************************)
(* Role registry (AuthorizationService.builtInRoles).                      *)
(***************************************************************************)
ADMIN == "admin"

MODERATOR == "moderator"

USER == "user"

GUEST == "guest"

BuiltInRole == {ADMIN, MODERATOR, USER, GUEST}

Rule(a, r, c) == [action |-> a, resource |-> r, conditions |-> c]

Flag(key) == Obj(<<Entry(key, Bool(TRUE))>>)

OwnUser == Obj(<<Entry("userId", Str("${userId}"))>>)

\* the registry with the create rule for tasks copied into the guest role
builtInRoles_GuestCreates ==
  [role \in BuiltInRole |->
    CASE role = ADMIN ->
           [id |-> ADMIN, active |-> TRUE,
            abacRules |-> <<Rule("manage", "*", Undef)>>]
      [] role = MODERATOR ->
           [id |-> MODERATOR, active |-> TRUE,
            abacRules |-> <<Rule("manage", "team", Flag("teamAdmin")),
                            Rule("manage", "board", Flag("boardAdmin")),
                            Rule("delete", "comment", Undef)>>]
      [] role = USER ->
           [id |-> USER, active |-> TRUE,
            abacRules |-> <<Rule("read", "user", OwnUser),
                            Rule("update", "user", OwnUser),
                            Rule("create", "team", Undef),
                            Rule("create", "board", Flag("teamMember")),
                            Rule("read", "board", Flag("boardMember")),
                            Rule("create", "task", Flag("boardMember")),
                            Rule("read", "task", Flag("boardMember")),
                            Rule("update", "task", Flag("resourceOwner")),
                            Rule("create", "comment", Flag("boardMember")),
                            Rule("update", "comment", Flag("resourceOwner")),
                            Rule("delete", "comment", Flag("resourceOwner"))>>]
      [] OTHER ->
           [id |-> GUEST, active |-> TRUE,
            abacRules |-> <<Rule("read", "board", Flag("boardMember")),
                            Rule("read", "task", Flag("boardMember")),
                            Rule("create", "task", Flag("boardMember"))>>]]

builtInRoles ==
  [role \in BuiltInRole |->
    CASE role = ADMIN ->
           [id |-> ADMIN, active |-> TRUE,
            abacRules |-> <<Rule("manage", "*", Undef)>>]
      [] role = MODERATOR ->
           [id |-> MODERATOR, active |-> TRUE,
            abacRules |-> <<Rule("manage", "team", Flag("teamAdmin")),
                            Rule("manage", "board", Flag("boardAdmin")),
                            Rule("delete", "comment", Undef)>>]
      [] role = USER ->
           [id |-> USER, active |-> TRUE,
            abacRules |-> <<Rule("read", "user", OwnUser),
                            Rule("update", "user", OwnUser),
                            Rule("create", "team", Undef),
                            Rule("create", "board", Flag("teamMember")),
                            Rule("read", "board", Flag("boardMember")),
                            Rule("create", "task", Flag("boardMember")),
                            Rule("read", "task", Flag("boardMember")),
                            Rule("update", "task", Flag("resourceOwner")),
                            Rule("create", "comment", Flag("boardMember")),
                            Rule("update", "comment", Flag("resourceOwner")),
                            Rule("delete", "comment", Flag("resourceOwner"))>>]
      [] OTHER ->
           [id |-> GUEST, active |-> TRUE,
            abacRules |-> <<Rule("read", "board", Flag("boardMember")),
                            Rule("read", "task", Flag("boardMember"))>>]]

(***************************************************************************)
(* Condition evaluator.                                                    *)
(***************************************************************************)
\* resolveTemplateVariable without the substitution
resolveTemplateVariable_Literal(value, user) == value

\* resolveTemplateVariable(value, user)
resolveTemplateVariable(value, user) ==
  IF value.t # "str" THEN value
  ELSE IF value.s = "${userId}" THEN user.userId
  ELSE IF value.s = "${userEmail}" THEN user.email
  ELSE value

\* one case of the switch: TRUE when the operator does not return false
\* the switch of evaluateOperators rejecting the keys it does not know
operatorPasses_Strict(op, opValue, value) ==
  CASE op = "$eq"     -> StrictEq(value, opValue)
    [] op = "$ne"     -> ~StrictEq(value, opValue)
    [] op = "$in"     -> opValue.t = "arr" /\ Includes(opValue, value)
    [] op = "$nin"    -> ~(opValue.t = "arr" /\ Includes(opValue, value))
    [] op = "$gt"     -> ~JsLe(value, opValue)
    [] op = "$lt"     -> ~JsGe(value, opValue)
    [] op = "$gte"    -> ~JsLt(value, opValue)
    [] op = "$lte"    -> ~JsGt(value, opValue)
    [] op = "$exists" -> /\ ~(~Falsy(opValue) /\ value.t = "undef")
                         /\ ~(Falsy(opValue) /\ value.t # "undef")
    [] OTHER          -> FALSE

operatorPasses(op, opValue, value) ==
  CASE op = "$eq"     -> StrictEq(value, opValue)
    [] op = "$ne"     -> ~StrictEq(value, opValue)
    [] op = "$in"     -> opValue.t = "arr" /\ Includes(opValue, value)
    [] op = "$nin"    -> ~(opValue.t = "arr" /\ Includes(opValue, value))
    [] op = "$gt"     -> ~JsLe(value, opValue)
    [] op = "$lt"     -> ~JsGe(value, opValue)
    [] op = "$gte"    -> ~JsLt(value, opValue)
    [] op = "$lte"    -> ~JsGt(value, opValue)
    [] op = "$exists" -> /\ ~(~Falsy(opValue) /\ value.t = "undef")
                         /\ ~(Falsy(opValue) /\ value.t # "undef")
    [] OTHER          -> TRUE

\* evaluateOperators preferring the resource value
evaluateOperators_ResourceFirst(operators, userValue, resourceValue) ==
  LET value == IF resourceValue.t # "undef" THEN resourceValue ELSE userValue
  IN \A i \in 1..Len(operators.kids) :
       operatorPasses(operators.kids[i].k, operators.kids[i].v, value)

\* evaluateOperators(operators, userValue, resourceValue)
evaluateOperators(operators, userValue, resourceValue) ==
  LET value == IF userValue.t # "undef" THEN userValue ELSE resourceValue
  IN \A i \in 1..Len(operators.kids) :
       operatorPasses(operators.kids[i].k, operators.kids[i].v, value)

\* resourceContext?.[key]
rcGet(resourceContext, key) ==
  IF resourceContext.t \in {"undef", "null"} THEN Undef
  ELSE Get(resourceContext, key)

\* conditionHolds comparing the caller's attribute only
conditionHolds_UserOnly(key, expectedValue, user, resourceContext) ==
  LET userAttributeValue == Get(user.attributes, key)
      resolvedExpectedValue == resolveTemplateVariable(expectedValue, user)
  IN \/ StrictEq(userAttributeValue, resolvedExpectedValue)
     \/ /\ expectedValue.t = "obj"
        /\ evaluateOperators(expectedValue, userAttributeValue, Undef)

\* one iteration of the loop of evaluateConditions: the key is satisfied
conditionHolds(key, expectedValue, user, resourceContext) ==
  LET userAttributeValue == Get(user.attributes, key)
      resourceValue == rcGet(resourceContext, key)
      resolvedExpectedValue == resolveTemplateVariable(expectedValue, user)
  IN \/ StrictEq(userAttributeValue, resolvedExpectedValue)
     \/ StrictEq(resourceValue, resolvedExpectedValue)
     \/ /\ expectedValue.t = "obj"
        /\ evaluateOperators(expectedValue, userAttributeValue, resourceValue)

\* evaluateConditions(conditions, user, resourceContext)
evaluateConditions(conditions, user, resourceContext) ==
  \A i \in 1..Len(conditions.kids) :
    conditionHolds(conditions.kids[i].k, conditions.kids[i].v,
                   user, resourceContext)

\* evaluateConditions raises a TypeError: a key that is not satisfied by
\* equality has the expected value null, and Object.entries(null) throws
evaluateConditionsThrows(conditions, user, resourceContext) ==
  \E i \in 1..Len(conditions.kids) :
    /\ conditions.kids[i].v.t = "null"
    /\ ~StrictEq(Get(user.attributes, conditions.kids[i].k), Null)
    /\ ~StrictEq(rcGet(resourceContext, conditions.kids[i].k), Null)
    /\ \A j \in 1..(i - 1) :
         conditionHolds(conditions.kids[j].k, conditions.kids[j].v,
                        user, resourceContext)

(***************************************************************************)
(* Permission evaluator.                                                   *)
(***************************************************************************)
\* getApplicableRules taking the rules of the first role only
getApplicableRules_FirstRole(roles) ==
  IF roles = <<>> THEN <<>>
  ELSE LET role == Head(roles)
       IN IF role \in DOMAIN builtInRoles /\ builtInRoles[role].active
          THEN builtInRoles[role].abacRules
          ELSE <<>>

RECURSIVE getApplicableRules(_)
getApplicableRules(roles) ==
  IF roles = <<>> THEN <<>>
  ELSE LET role == Head(roles)
           mine == IF role \in DOMAIN builtInRoles /\ builtInRoles[role].active
                   THEN builtInRoles[role].abacRules
                   ELSE <<>>
       IN mine \o getApplicableRules(Tail(roles))

\* ruleMatches without the resource test
ruleMatches_AnyResource(rule, action, resource, user, resourceContext) ==
  IF rule.action # "*" /\ rule.action # action THEN FALSE
  ELSE IF Falsy(rule.conditions) THEN TRUE
  ELSE evaluateConditions(rule.conditions, user, resourceContext)

ruleMatches(rule, action, resource, user, resourceContext) ==
  IF rule.action # "*" /\ rule.action # action THEN FALSE
  ELSE IF rule.resource # "*" /\ rule.resource # resource THEN FALSE
  ELSE IF Falsy(rule.conditions) THEN TRUE
  ELSE evaluateConditions(rule.conditions, user, resourceContext)

RECURSIVE firstMatch_Decisive(_, _, _, _, _)
\* the loop stopping at the first rule for the action and resource, whether
\* or not its conditions hold
firstMatch_Decisive(rules, action, resource, user, resourceContext) ==
  IF rules = <<>> THEN 0
  ELSE LET rule == Head(rules)
           applies == /\ (rule.action = "*" \/ rule.action = action)
                      /\ (rule.resource = "*" \/ rule.resource = resource)
       IN IF applies
          THEN IF ruleMatches(rule, action, resource, user, resourceContext)
               THEN 1 ELSE 0
          ELSE LET rest == firstMatch_Decisive(Tail(rules), action, resource,
                                               user, resourceContext)
               IN IF rest = 0 THEN 0 ELSE rest + 1

RECURSIVE firstMatch(_, _, _, _, _)
\* the loop over the applicable rules: index of the first matching rule, 0 if none
firstMatch(rules, action, resource, user, resourceContext) ==
  IF rules = <<>> THEN 0
  ELSE IF ruleMatches(Head(rules), action, resource, user, resourceContext)
       THEN 1
       ELSE LET rest == firstMatch(Tail(rules), action, resource, user,
                                   resourceContext)
            IN IF rest = 0 THEN 0 ELSE rest + 1

hasAdminRole(roles) == \E i \in 1..Len(roles) : roles[i] = ADMIN

\* checkPermission without the admin bypass
checkPermission_NoBypass(user, action, resource, resourceContext) ==
  firstMatch(getApplicableRules(user.roles), action, resource, user,
             resourceContext) # 0

checkPermission(user, action, resource, resourceContext) ==
  IF hasAdminRole(user.roles) THEN TRUE
  ELSE firstMatch(getApplicableRules(user.roles), action, resource, user,
                  resourceContext) # 0

\* checkPermission raises instead of returning
checkPermissionThrows(user, action, resource, resourceContext) ==
  LET rules == getApplicableRules(user.roles)
      hit == firstMatch(rules, action, resource, user, resourceContext)
      last == IF hit = 0 THEN Len(rules) ELSE hit
  IN /\ ~hasAdminRole(user.roles)
     /\ \E i \in 1..last :
          /\ rules[i].action = "*" \/ rules[i].action = action
          /\ rules[i].resource = "*" \/ rules[i].resource = resource
          /\ ~Falsy(rules[i].conditions)
          /\ evaluateConditionsThrows(rules[i].conditions, user, resourceContext)

\* Array.prototype.every over the permissions with checkPermission as the
\* callback: the result, and the number of calls of the callback
RECURSIVE every(_, _, _)
every(permissions, user, resourceContext) ==
  IF permissions = <<>> THEN [result |-> TRUE, calls |-> 0]
  ELSE IF ~checkPermission(user, Head(permissions)[1], Head(permissions)[2],
                           resourceContext)
       THEN [result |-> FALSE, calls |-> 1]
       ELSE LET rest == every(Tail(permissions), user, resourceContext)
            IN [result |-> rest.result, calls |-> rest.calls + 1]

\* Array.prototype.some, likewise
RECURSIVE some(_, _, _)
some(permissions, user, resourceContext) ==
  IF permissions = <<>> THEN [result |-> FALSE, calls |-> 0]
  ELSE IF checkPermission(user, Head(permissions)[1], Head(permissions)[2],
                          resourceContext)
       THEN [result |-> TRUE, calls |-> 1]
       ELSE LET rest == some(Tail(permissions), user, resourceContext)
            IN [result |-> rest.result, calls |-> rest.calls + 1]

\* checkPermissions with the logic its comment announces ("OR logic")
checkPermissions_Or(user, permissions, resourceContext) ==
  some(permissions, user, resourceContext)

checkPermissions(user, permissions, resourceContext) ==
  every(permissions, user, resourceContext)

checkAnyPermission(user, permissions, resourceContext) ==
  some(permissions, user, resourceContext)

(***************************************************************************)
(* Custom claims service (CustomClaimsService).                            *)
(***************************************************************************)
\* {...target, ...source}: the own properties of source written over target;
\* spreading undefined or null adds nothing
RECURSIVE PutAll(_, _)
PutAll(target, entries) ==
  IF entries = <<>> THEN target
  ELSE PutAll(Put(target, Head(entries).k, Head(entries).v), Tail(entries))

Spread(target, source) ==
  IF source.t = "obj" THEN PutAll(target, source.kids) ELSE target

\* buildCustomClaims(userId, role, abacRules, attributes) at time t
buildCustomClaims(userId, role, abacRules, attributes, t) ==
  Obj(<<Entry("role", Str(role)),
        Entry("roles", Arr(<<Str(role)>>)),
        Entry("permissionRules",
              IF Falsy(abacRules) THEN Arr(<<>>) ELSE abacRules),
        Entry("attributes",
              IF Falsy(attributes) THEN EmptyObj ELSE attributes),
        Entry("updatedAt", Num(t))>>)

RECURSIVE sanitizeValue(_)
RECURSIVE sanitizeEntries(_)
\* the loop of sanitizeObject: entries whose value is undefined are skipped
sanitizeEntries(entries) ==
  IF entries = <<>> THEN <<>>
  ELSE IF Head(entries).v.t = "undef" THEN sanitizeEntries(Tail(entries))
  ELSE <<Entry(Head(entries).k, sanitizeValue(Head(entries).v))>>
         \o sanitizeEntries(Tail(entries))

\* sanitizeObject keeping the entries whose value is undefined
sanitizeObject_Keeping(obj) ==
  Obj([i \in 1..Len(obj.kids) |->
         Entry(obj.kids[i].k, sanitizeValue(obj.kids[i].v))])

sanitizeObject(obj) == Obj(sanitizeEntries(obj.kids))

sanitizeValue(value) ==
  CASE value.t \in {"null", "undef"}       -> value
    [] value.t \in {"str", "num", "bool"}  -> value
    [] value.t = "arr" ->
         [value EXCEPT !.kids =
            [i \in 1..Len(value.kids) |-> Entry("", sanitizeValue(value.kids[i].v))]]
    [] value.t = "obj"                     -> sanitizeObject(value)
    [] OTHER                               -> Null

RECURSIVE sanitizeTop(_)
\* the loop of sanitizeCustomClaims over the top-level entries
sanitizeTop(entries) ==
  IF entries = <<>> THEN <<>>
  ELSE LET key == Head(entries).k
           value == Head(entries).v
           rest == sanitizeTop(Tail(entries))
       IN CASE value.t = "undef" -> rest
            [] value.t \in {"str", "num", "bool"} -> <<Entry(key, value)>> \o rest
            [] value.t = "arr" -> <<Entry(key, sanitizeValue(value))>> \o rest
            [] value.t = "obj" -> <<Entry(key, sanitizeObject(value))>> \o rest
            [] OTHER -> rest

sanitizeCustomClaims(claims) == Obj(sanitizeTop(claims.kids))

\* the merge keeping roles in step with a new primary role
mergedClaims_SyncingRoles(existingClaims, partialClaims, t) ==
  LET merged == Put(Spread(Spread(EmptyObj, existingClaims), partialClaims),
                    "updatedAt", Num(t))
  IN IF Has(partialClaims, "role") /\ ~Has(partialClaims, "roles")
     THEN Put(merged, "roles", Arr(<<Get(partialClaims, "role")>>))
     ELSE merged

\* the merge letting the caller's updatedAt stand
mergedClaims_CallerStamp(existingClaims, partialClaims, t) ==
  Spread(Put(Spread(EmptyObj, existingClaims), "updatedAt", Num(t)),
         partialClaims)

\* the merge of updateCustomClaims at time t:
\* {...existingClaims, ...partialClaims, updatedAt: Date.now()}
mergedClaims(existingClaims, partialClaims, t) ==
  Put(Spread(Spread(EmptyObj, existingClaims), partialClaims),
      "updatedAt", Num(t))

\* the default of the parameter maxAgeMs: 24 hours
DefaultMaxAgeMs == 86400000

\* isCustomClaimsStale(claims, maxAgeMs), t being Date.now()
isCustomClaimsStale(claims, maxAgeMs, t) ==
  LET maxAge == IF maxAgeMs.t = "undef" THEN Num(DefaultMaxAgeMs) ELSE maxAgeMs
      updatedAt == ToNumber(ToPrimitive(Get(claims, "updatedAt")))
  IN IF Falsy(claims) \/ Falsy(Get(claims, "updatedAt")) THEN TRUE
     ELSE IF updatedAt.nan THEN FALSE
     ELSE JsGt(Num(t - updatedAt.n), maxAge)

(***************************************************************************)
(* Enforcement adapter (FirebaseAuthGuard.canActivate).                    *)
(***************************************************************************)
\* decodedToken.customClaims?.key
claimOf(decodedToken, key) ==
  IF decodedToken.customClaims.t \in {"undef", "null"} THEN Undef
  ELSE Get(decodedToken.customClaims, key)

\* authorizationContext reading the primary role only
authorizationContext_PrimaryRole(decodedToken) ==
  [userId |-> Str(decodedToken.uid),
   email |-> Str(decodedToken.email),
   roles |-> Arr(<<IF ~Falsy(claimOf(decodedToken, "role"))
                   THEN claimOf(decodedToken, "role")
                   ELSE Str("guest")>>),
   attributes |-> IF ~Falsy(claimOf(decodedToken, "attributes"))
                  THEN claimOf(decodedToken, "attributes")
                  ELSE EmptyObj]

\* authorizationContext adding the primary role to the roles
authorizationContext_AddingRole(decodedToken) ==
  [userId |-> Str(decodedToken.uid),
   email |-> Str(decodedToken.email),
   roles |-> IF ~Falsy(claimOf(decodedToken, "roles"))
             THEN IF ~Falsy(claimOf(decodedToken, "role"))
                  THEN Arr([i \in 1..Len(claimOf(decodedToken, "roles").kids) |->
                              claimOf(decodedToken, "roles").kids[i].v]
                           \o <<claimOf(decodedToken, "role")>>)
                  ELSE claimOf(decodedToken, "roles")
             ELSE Arr(<<IF ~Falsy(claimOf(decodedToken, "role"))
                        THEN claimOf(decodedToken, "role")
                        ELSE Str("guest")>>),
   attributes |-> IF ~Falsy(claimOf(decodedToken, "attributes"))
                  THEN claimOf(decodedToken, "attributes")
                  ELSE EmptyObj]

\* request.user built from a verified credential
authorizationContext(decodedToken) ==
  [userId |-> Str(decodedToken.uid),
   email |-> Str(decodedToken.email),
   roles |-> IF ~Falsy(claimOf(decodedToken, "roles"))
             THEN claimOf(decodedToken, "roles")
             ELSE Arr(<<IF ~Falsy(claimOf(decodedToken, "role"))
                        THEN claimOf(decodedToken, "role")
                        ELSE Str("guest")>>),
   attributes |-> IF ~Falsy(claimOf(decodedToken, "attributes"))
                  THEN claimOf(decodedToken, "attributes")
                  ELSE EmptyObj]

\* user.roles.includes(role)
rolesInclude(roles, role) == Includes(roles, Str(role))

\* request.user as the evaluator receives it: the roles array as the list of
\* its role names
asCaller(user) ==
  [user EXCEPT !.roles = [i \in 1..Len(user.roles.kids) |-> user.roles.kids[i].v.s]]

(***************************************************************************)
(* PermissionGuard.                                                        *)
(***************************************************************************)
\* extractResourceContext marking the caller's own resources
extractResourceContext_MarkingOwner(request) ==
  IF Falsy(request.body) THEN EmptyObj
  ELSE Put(EmptyObj, "resourceOwner",
           Bool(request.user # Undef
                  /\ StrictEq(Get(request.body, "ownerId"), request.user.userId)))

\* extractResourceContext(request)
extractResourceContext(request) ==
  LET params == request.params
      body == request.body
      fromParams ==
        IF Falsy(params) THEN EmptyObj
        ELSE Obj(<<Entry("resourceId", Get(params, "id")),
                   Entry("teamId", Get(params, "teamId")),
                   Entry("boardId", Get(params, "boardId")),
                   Entry("listId", Get(params, "listId")),
                   Entry("taskId", Get(params, "taskId"))>>)
  IN IF Falsy(body) THEN fromParams
     ELSE Put(Put(fromParams, "ownerId", Get(body, "ownerId")),
              "createdBy", Get(body, "createdBy"))

\* PermissionGuard.canActivate: requiredPermissions is the route's metadata,
\* the empty list standing for no metadata as well
permissionGuard(requiredPermissions, request) ==
  IF requiredPermissions = <<>> THEN "allow"
  ELSE IF request.user = Undef THEN "forbidden"
  ELSE IF checkPermissions(asCaller(request.user), requiredPermissions,
                           extractResourceContext(request)).result
       THEN "allow"
       ELSE "forbidden"

(***************************************************************************)
(* Role decorators and RoleGuard.                                          *)
(***************************************************************************)
RequireAdmin == Arr(<<Str(ADMIN)>>)

RequireModerator == Arr(<<Str(MODERATOR)>>)

RequireUser == Arr(<<Str(USER), Str(MODERATOR), Str(ADMIN)>>)

\* RoleGuard.canActivate: requiredRoles is the route's metadata (Undef
\* without a decorator), user is request.user (Undef when no guard set it)
roleGuard(requiredRoles, user) ==
  IF Falsy(requiredRoles) \/ Len(requiredRoles.kids) = 0 THEN "allow"
  ELSE IF user = Undef THEN "forbidden"
  ELSE IF \E i \in 1..Len(requiredRoles.kids) :
            Includes(user.roles, requiredRoles.kids[i].v)
       THEN "allow"
       ELSE "forbidden"

(***************************************************************************)
(* State.                                                                  *)
(***************************************************************************)
VARIABLES
  permIn,     \* arguments of one checkPermission call
  permOut,    \* its outcome: "none" (not called yet), "allow", "deny", "throw"
  condIn,     \* arguments of one evaluateConditions call
  condOut,    \* its outcome: "none", "true", "false", "throw"
  listIn,     \* arguments of checkPermissions and checkAnyPermission
  listOut,    \* what each of the two returned and how many checks it made
  staleIn,    \* arguments of one isCustomClaimsStale call and its Date.now()
  staleOut,   \* its outcome: "none", "true", "false"
  stored,     \* identity provider: the custom claims stored for each user
  tokens,     \* the credentials issued so far, as they decode
  issued,     \* history: for each credential, what was stored at its issuance
  calls,      \* the updateCustomClaims calls that have read and not written
  started,    \* how many updateCustomClaims calls have started
  now,        \* Date.now()
  written,    \* history: the latest successful write of each user's claims
  outcome,    \* how the latest call of the claims service ended
  sanIn,      \* sanitizeCustomClaims: the claims handed over
  sanOut,     \* sanitizeCustomClaims: the result
  tokIn,      \* FirebaseAuthGuard: the verified credential
  ctxOut,     \* FirebaseAuthGuard: request.user
  roleIn,     \* RoleGuard: the route's required roles and request.user
  roleOut,    \* RoleGuard: "allow" or "forbidden"
  reqIn,      \* PermissionGuard: the route's permissions and the request
  reqOut      \* PermissionGuard: "allow" or "forbidden"

vars ==
  <<permIn, permOut, condIn, condOut, listIn, listOut, staleIn, staleOut,
    stored, tokens, issued, calls, started,
    now, written, outcome,
    sanIn, sanOut, tokIn, ctxOut, roleIn, roleOut, reqIn, reqOut>>

evalVars ==
  <<permIn, permOut, condIn, condOut, listIn, listOut, staleIn, staleOut>>

claimVars ==
  <<stored, tokens, issued, calls, started, now, written, outcome>>

adapterVars ==
  <<sanIn, sanOut, tokIn, ctxOut, roleIn, roleOut, reqIn, reqOut>>

(***************************************************************************)
(* Inputs of the evaluators.                                               *)
(***************************************************************************)
\* longest role list of an authorization context
MaxRoles == 2

\* role ids a credential may carry: the registered ones and an unknown one
RoleIds == BuiltInRole \cup {"ghost"}

\* role lists: the role ids in any order, none of them twice
RoleLists ==
  UNION {{rs \in [1..n -> RoleIds] :
            \A i, j \in 1..n : i # j => rs[i] # rs[j]} : n \in 0..MaxRoles}

\* requested actions and resources, "fly" and "ufo" being outside the vocabulary
Actions == {"create", "read", "update", "delete", "manage", "fly"}

Resources == {"user", "team", "board", "task", "comment", "ufo"}

FlagKeys == {"teamAdmin", "boardAdmin", "teamMember", "boardMember", "resourceOwner"}

\* attribute maps of a caller or of a resource: empty or one entry
FlagMaps == {Obj(<<Entry(k, Bool(b))>>) : k \in FlagKeys, b \in BOOLEAN}

UserIdMaps == {Obj(<<Entry("userId", Str(x))>>) : x \in {"u1", "u2", "${userId}"}}

AttributeMaps == {EmptyObj} \cup FlagMaps \cup UserIdMaps

ResourceContexts == {Undef} \cup AttributeMaps

Caller(roles, attributes) ==
  [userId |-> Str("u1"), email |-> Str("abc"), roles |-> roles,
   attributes |-> attributes]

IdlePerm ==
  [user |-> Caller(<<>>, EmptyObj), action |-> "", resource |-> "",
   resourceContext |-> Undef]

IdleCond ==
  [conditions |-> EmptyObj, user |-> Caller(<<>>, EmptyObj),
   resourceContext |-> Undef]

\* the checkPermission calls whose role list is one of roleLists
PermInputs(roleLists) ==
  {[user |-> Caller(rs, at), action |-> a, resource |-> r, resourceContext |-> rc] :
     rs \in roleLists, at \in AttributeMaps, a \in Actions, r \in Resources,
     rc \in ResourceContexts}

\* {age: {op: operand, ...}}
AgeCondition(ops) == Obj(<<Entry("age", Obj(ops))>>)

AgeRange == AgeCondition(<<Entry("$gte", Num(18)), Entry("$lt", Num(65))>>)

OrderOps == {"$gt", "$lt", "$gte", "$lte"}

OrderConditions == {AgeCondition(<<Entry(op, Num(18))>>) : op \in OrderOps}

Conditions == {Flag("teamMember"), OwnUser, AgeRange} \cup OrderConditions

AgeValues ==
  {Num(17), Num(18), Num(19), Num(64), Num(65), Str("abc"), Str("20"),
   Bool(TRUE), Null, EmptyObj}

CondAttributeMaps ==
  {EmptyObj}
  \cup {Obj(<<Entry("teamMember", v)>>) :
          v \in {Bool(TRUE), Bool(FALSE), Num(1), Str("abc")}}
  \cup UserIdMaps
  \cup {Obj(<<Entry("age", v)>>) : v \in AgeValues}

CondInputs ==
  {[conditions |-> c, user |-> Caller(<<USER>>, at), resourceContext |-> rc] :
     c \in Conditions, at \in CondAttributeMaps,
     rc \in {Undef} \cup CondAttributeMaps}

\* pairs handed to checkPermissions and checkAnyPermission in one list
MaxPairs == 2

Permissions ==
  {<<"create", "task">>, <<"read", "board">>, <<"manage", "board">>,
   <<"delete", "comment">>, <<"fly", "ufo">>}

PermissionLists == UNION {[1..n -> Permissions] : n \in 0..MaxPairs}

ListRoles ==
  {<<GUEST>>, <<USER>>, <<MODERATOR>>, <<USER, MODERATOR>>, <<ADMIN>>}

ListAttributeMaps ==
  {EmptyObj, Flag("teamMember"), Flag("boardAdmin"), Flag("resourceOwner")}

IdleList ==
  [user |-> Caller(<<>>, EmptyObj), permissions |-> <<>>, resourceContext |-> Undef]

ListInputs(lists) ==
  {[user |-> Caller(rs, at), permissions |-> ps, resourceContext |-> rc] :
     rs \in ListRoles, at \in ListAttributeMaps, ps \in lists,
     rc \in {Undef, Flag("teamMember")}}

NotCalled == [done |-> FALSE, result |-> FALSE, calls |-> 0]

Returning(r) == [done |-> TRUE, result |-> r.result, calls |-> r.calls]

NoListOut == [all |-> NotCalled, any |-> NotCalled]

\* readings of Date.now() at a call of isCustomClaimsStale
StaleTimes == {100, DefaultMaxAgeMs + 100}

\* ages of the claims at the call: fresh, around 5 ms, around 24 hours,
\* stamped in the future, and stamped at instant 0
StaleAges(t) == {0, 5, 6, DefaultMaxAgeMs, DefaultMaxAgeMs + 1, -1, t}

StaleClaims(t) ==
  {Undef, Null, EmptyObj, Obj(<<Entry("role", Str("user"))>>)}
  \cup {Obj(<<Entry("role", Str("user")), Entry("updatedAt", Num(t - age))>>) :
          age \in StaleAges(t)}

IdleStale == [claims |-> Undef, maxAgeMs |-> Undef, at |-> 0]

StaleInputs ==
  {[claims |-> c, maxAgeMs |-> m, at |-> t] :
     t \in StaleTimes,
     c \in UNION {StaleClaims(x) : x \in StaleTimes},
     m \in {Undef, Num(0), Num(5), Num(DefaultMaxAgeMs + 100)}}

(***************************************************************************)
(* The claims synchronizer, the identity provider and the auth endpoints.  *)
(***************************************************************************)
Users == {"u1"}

\* credentials issued in one run
MaxTokens == 1

\* updateCustomClaims calls started in one run
MaxCalls == 2

\* latest instant of the clock
MaxTime == 1

\* a payload handed to setCustomClaims by a service of the application: it
\* carries an undefined entry, a function and a null
RawClaims ==
  Obj(<<Entry("role", Str("admin")),
        Entry("roles", Arr(<<Str("admin"), Str("user")>>)),
        Entry("attributes",
              Obj(<<Entry("boardAdmin", Bool(TRUE)), Entry("teamId", Undef)>>)),
        Entry("permissionRules", Undef),
        Entry("onChange", Fn)>>)

SetInputs == {RawClaims}

\* partial claims handed to updateCustomClaims
PartialInputs ==
  {Obj(<<Entry("role", Str("guest"))>>),
   Obj(<<Entry("attributes", Obj(<<Entry("teamMember", Bool(TRUE))>>))>>)}

\* role names sent to POST /auth/users/:userId/role
RoleInputs == {USER, "ghost"}

(***************************************************************************)
(* Inputs of the sanitizer and of the guards.                              *)
(***************************************************************************)
\* deepest nesting of a value inside the claims
MaxDepth == 2

Scalars == {Undef, Null, Str("a"), Num(1), Bool(TRUE), Fn}

\* values nested at most d deep: scalars, arrays and objects of them
RECURSIVE NestedValues(_)
NestedValues(d) ==
  IF d = 0 THEN Scalars
  ELSE Scalars
         \cup {Arr(<<v>>) : v \in NestedValues(d - 1)}
         \cup {Obj(<<Entry("x", v)>>) : v \in NestedValues(d - 1)}
         \cup {Arr(<<Undef, v>>) : v \in Scalars}
         \cup {Obj(<<Entry("x", Undef), Entry("y", v)>>) : v \in Scalars}

\* claims handed to sanitizeCustomClaims
SanInputs(values) ==
  {Obj(<<Entry("role", v), Entry("attributes", w)>>) : v \in values, w \in values}

IdleSan == Undef

NoSan == [done |-> FALSE, value |-> Undef]

SanIdle ==
  /\ sanIn = IdleSan
  /\ sanOut = NoSan

\* a rule carried in the claims: it grants everything
CarriedRule ==
  Obj(<<Entry("action", Str("*")), Entry("resource", Str("*"))>>)

\* the entry of one key of the custom claims: absent, or one of the values
ClaimEntries(key, values) == {<<>>} \cup {<<Entry(key, v)>> : v \in values}

\* customClaims of a verified credential
CustomClaims ==
  {Undef, Null} \cup
  {Obj(r \o rs \o at \o pr) :
     r \in ClaimEntries("role", {Str(ADMIN), Str(USER)}),
     rs \in ClaimEntries("roles", {Null, Arr(<<>>), Arr(<<Str(USER)>>),
                                   Arr(<<Str(MODERATOR), Str(USER)>>)}),
     at \in ClaimEntries("attributes", {Null, EmptyObj, Flag("boardAdmin")}),
     pr \in ClaimEntries("permissionRules", {Arr(<<CarriedRule>>)})}

TokenInputs ==
  {[uid |-> "u1", email |-> "abc", customClaims |-> c] : c \in CustomClaims}

IdleToken == [uid |-> "", email |-> "", customClaims |-> Undef]

NoContext == [done |-> FALSE, user |-> Undef]

TokIdle ==
  /\ tokIn = IdleToken
  /\ ctxOut = NoContext

\* the operators evaluateOperators knows
KnownOps ==
  {"$eq", "$ne", "$in", "$nin", "$gt", "$lt", "$gte", "$lte", "$exists"}

\* operator maps with keys outside KnownOps: empty, only unknown keys, a
\* plain nested object, and known operators with an unknown key added
\* before or after them
UnknownOpMaps ==
  {<<>>,
   <<Entry("$regex", Str("a"))>>,
   <<Entry("$regex", Str("a")), Entry("$between", Num(1))>>,
   <<Entry("name", Str("x")), Entry("size", Num(2))>>,
   <<Entry("$gt", Num(18)), Entry("$regex", Str("a"))>>,
   <<Entry("$regex", Str("a")), Entry("$lt", Num(65))>>,
   <<Entry("$exists", Bool(TRUE)), Entry("$between", Num(1))>>,
   <<Entry("$gte", Num(18)), Entry("$regex", Str("a")), Entry("$lt", Num(65))>>}

AgeMaps == {EmptyObj} \cup {Obj(<<Entry("age", v)>>) : v \in AgeValues}

OperatorInputs ==
  {[conditions |-> AgeCondition(ops), user |-> Caller(<<USER>>, at),
    resourceContext |-> rc] :
     ops \in UnknownOpMaps, at \in AgeMaps, rc \in {Undef} \cup AgeMaps}

\* the roles metadata of a route
RequiredRoles ==
  {Undef, Arr(<<>>), RequireAdmin, RequireModerator, RequireUser}

\* request.user of a caller with the given role names
Authenticated(roles) ==
  [userId |-> Str("u1"), email |-> Str("abc"),
   roles |-> Arr([i \in 1..Len(roles) |-> Str(roles[i])]),
   attributes |-> EmptyObj]

RoleGuardInputs(roleLists) ==
  {[requiredRoles |-> r, user |-> u] :
     r \in RequiredRoles, u \in {Undef} \cup {Authenticated(rs) : rs \in roleLists}}

IdleRole == [requiredRoles |-> Undef, user |-> Undef]

\* the permissions metadata of a route
RequiredPermissions ==
  {<<>>, <<<<"read", "board">>>>, <<<<"update", "task">>>>,
   <<<<"update", "user">>>>, <<<<"delete", "comment">>, <<"read", "board">>>>}

\* request.params and request.body: absent, the identifiers of the caller's
\* own resources, and a body naming another owner and the condition keys
RequestParams ==
  {Undef, Obj(<<Entry("id", Str("u1"))>>),
   Obj(<<Entry("id", Str("t1")), Entry("boardId", Str("b1")),
         Entry("teamId", Str("x"))>>)}

RequestBodies ==
  {Undef, Obj(<<Entry("ownerId", Str("u1")), Entry("createdBy", Str("u1"))>>),
   Obj(<<Entry("ownerId", Str("u2")), Entry("resourceOwner", Bool(TRUE)),
         Entry("boardMember", Bool(TRUE)), Entry("userId", Str("u1"))>>)}

RequestUsers ==
  {Undef} \cup
  {[Authenticated(<<role>>) EXCEPT !.attributes = at] :
     role \in BuiltInRole,
     at \in {EmptyObj, Flag("boardMember"), Flag("resourceOwner"),
             Obj(<<Entry("userId", Str("u1"))>>)}}

IdleRequest ==
  [requiredPermissions |-> <<>>,
   request |-> [user |-> Undef, params |-> Undef, body |-> Undef]]

RequestInputs ==
  {[requiredPermissions |-> ps,
    request |-> [user |-> u, params |-> p, body |-> b]] :
     ps \in RequiredPermissions, u \in RequestUsers, p \in RequestParams,
     b \in RequestBodies} \ {IdleRequest}

RoleIdle ==
  /\ roleIn = IdleRole
  /\ roleOut = "none"

AdapterIdle ==
  /\ SanIdle
  /\ TokIdle
  /\ RoleIdle
  /\ reqIn = IdleRequest
  /\ reqOut = "none"

\* an updateCustomClaims call between its read and its write; missed: the
\* partial claims that other calls for the same user have written since this
\* call read
Reading(u, partialClaims, existingClaims) ==
  [uid |-> u, partial |-> partialClaims, existing |-> existingClaims,
   missed |-> {}]

\* kind: "none", "set" (through setCustomClaims) or "clear"; p: the claims
\* handed over; via: the method that wrote, or the route that called it;
\* by: the credential presented to that route, else 0; lost: the partial
\* claims written by other updates between the writer's read and its write
NoWrite == [kind |-> "none", p |-> Undef, via |-> "", by |-> 0, lost |-> {}]

Write(kind, p, via, by) ==
  [kind |-> kind, p |-> p, via |-> via, by |-> by, lost |-> {}]

\* a call of the claims service that resolved, or rejected at the given await
NoOutcome == [op |-> "none", uid |-> "", ok |-> TRUE, at |-> ""]

Resolved(op, u) == [op |-> op, uid |-> u, ok |-> TRUE, at |-> ""]

Rejected(op, u, at) == [op |-> op, uid |-> u, ok |-> FALSE, at |-> at]

InitClaims ==
  /\ stored = [u \in Users |-> Undef]
  /\ tokens = <<>>
  /\ issued = <<>>
  /\ calls = EmptyBag
  /\ started = 0
  /\ now = 0
  /\ written = [u \in Users |-> NoWrite]
  /\ outcome = NoOutcome

Init ==
  /\ permIn = IdlePerm
  /\ permOut = "none"
  /\ condIn = IdleCond
  /\ condOut = "none"
  /\ listIn = IdleList
  /\ listOut = NoListOut
  /\ staleIn = IdleStale
  /\ staleOut = "none"
  /\ InitClaims
  /\ AdapterIdle

\* the identity provider issues (or refreshes) a credential for u: it embeds
\* the claims stored for u at that moment
IssueToken(u) ==
  /\ Len(tokens) < MaxTokens
  /\ tokens' = Append(tokens, [uid |-> u, email |-> "abc", customClaims |-> stored[u]])
  /\ issued' = Append(issued, [stored |-> stored[u], kind |-> written[u].kind,
                                p |-> written[u].p])
  /\ UNCHANGED <<stored, calls, started, now, written, outcome>>
  /\ UNCHANGED evalVars
  /\ UNCHANGED adapterVars

\* time passes
Tick ==
  /\ now < MaxTime
  /\ now' = now + 1
  /\ UNCHANGED <<stored, tokens, issued, calls, started, written, outcome>>
  /\ UNCHANGED evalVars
  /\ UNCHANGED adapterVars

\* setCustomClaims pushing the new claims into the credentials already issued
SetCustomClaims_Reissuing(u, customClaims) ==
  /\ stored' = [stored EXCEPT ![u] = sanitizeCustomClaims(customClaims)]
  /\ written' = [written EXCEPT ![u] =
                   Write("set", customClaims, "setCustomClaims", 0)]
  /\ tokens' = [i \in 1..Len(tokens) |->
                  IF tokens[i].uid = u
                  THEN [tokens[i] EXCEPT !.customClaims =
                          sanitizeCustomClaims(customClaims)]
                  ELSE tokens[i]]
  /\ outcome' = Resolved("setCustomClaims", u)
  /\ UNCHANGED <<issued, calls, started, now>>
  /\ UNCHANGED evalVars
  /\ UNCHANGED adapterVars

\* setCustomClaims(userId, customClaims): sanitize and hand to the provider,
\* which applies the write.  When the provider fails the method throws and
\* nothing changes: a stuttering step.
SetCustomClaims(u, customClaims) ==
  /\ stored' = [stored EXCEPT ![u] = sanitizeCustomClaims(customClaims)]
  /\ written' = [written EXCEPT ![u] =
                   Write("set", customClaims, "setCustomClaims", 0)]
  /\ outcome' = Resolved("setCustomClaims", u)
  /\ UNCHANGED <<tokens, issued, calls, started, now>>
  /\ UNCHANGED evalVars
  /\ UNCHANGED adapterVars

\* clearCustomClaims leaving the roles in place
ClearCustomClaims_KeepsRoles(u) ==
  /\ stored' = [stored EXCEPT ![u] =
                  IF Falsy(Get(stored[u], "roles")) THEN EmptyObj
                  ELSE Obj(<<Entry("roles", Get(stored[u], "roles"))>>)]
  /\ written' = [written EXCEPT ![u] =
                   Write("clear", EmptyObj, "clearCustomClaims", 0)]
  /\ outcome' = Resolved("clearCustomClaims", u)
  /\ UNCHANGED <<tokens, issued, calls, started, now>>
  /\ UNCHANGED evalVars
  /\ UNCHANGED adapterVars

\* clearCustomClaims(userId): hand {} to the provider, which applies the
\* write; a failure of the provider is a stuttering step
ClearCustomClaims(u) ==
  /\ stored' = [stored EXCEPT ![u] = EmptyObj]
  /\ written' = [written EXCEPT ![u] =
                   Write("clear", EmptyObj, "clearCustomClaims", 0)]
  /\ outcome' = Resolved("clearCustomClaims", u)
  /\ UNCHANGED <<tokens, issued, calls, started, now>>
  /\ UNCHANGED evalVars
  /\ UNCHANGED adapterVars

\* updateCustomClaims up to its first await: the provider answers the read
\* of the current claims (when it fails the call throws with nothing changed:
\* a stuttering step)
UpdateRead(u, partialClaims) ==
  /\ started < MaxCalls
  /\ started' = started + 1
  /\ calls' = calls (+) SetToBag({Reading(u, partialClaims, stored[u])})
  /\ UNCHANGED <<stored, tokens, issued, now, written, outcome>>
  /\ UNCHANGED evalVars
  /\ UNCHANGED adapterVars

\* what call d has missed once c has written
Missing(d, c) ==
  IF d.uid = c.uid THEN [d EXCEPT !.missed = @ \cup {c.partial}] ELSE d

\* call c has written and returns; the calls left between read and write
\* for the same user have missed what it wrote
Returned(c) ==
  LET rest == calls (-) SetToBag({c})
  IN [x \in {Missing(d, c) : d \in BagToSet(rest)} |->
        BagCardinality([d \in {e \in BagToSet(rest) : Missing(e, c) = x} |-> rest[d]])]

\* updateCustomClaims merging over the claims stored at the time of the write
UpdateWrite_Fresh(c) ==
  /\ BagIn(c, calls)
  /\ LET merged == mergedClaims(stored[c.uid], c.partial, now)
     IN /\ stored' = [stored EXCEPT ![c.uid] = sanitizeCustomClaims(merged)]
        /\ written' = [written EXCEPT ![c.uid] =
                         [Write("set", merged, "setCustomClaims", 0)
                            EXCEPT !.lost = c.missed]]
        /\ calls' = Returned(c)
  /\ outcome' = Resolved("updateCustomClaims", c.uid)
  /\ UNCHANGED <<tokens, issued, started, now>>
  /\ UNCHANGED evalVars
  /\ UNCHANGED adapterVars

\* updateCustomClaims after the read: merge, stamp, sanitize and hand the
\* result to the provider, which applies the write.  When the provider fails
\* the call throws with nothing written: such a call is one that stays
\* between its read and its write.
UpdateWrite(c) ==
  /\ BagIn(c, calls)
  /\ LET merged == mergedClaims(c.existing, c.partial, now)
     IN /\ stored' = [stored EXCEPT ![c.uid] = sanitizeCustomClaims(merged)]
        /\ written' = [written EXCEPT ![c.uid] =
                         [Write("set", merged, "setCustomClaims", 0)
                            EXCEPT !.lost = c.missed]]
        /\ calls' = Returned(c)
  /\ outcome' = Resolved("updateCustomClaims", c.uid)
  /\ UNCHANGED <<tokens, issued, started, now>>
  /\ UNCHANGED evalVars
  /\ UNCHANGED adapterVars

\* POST /auth/users/:userId/role with credential i: FirebaseAuthGuard, the one
\* guard of the route, admits every verified credential; then the handler.
\* An invalid role, or a failure of the provider, ends in BadRequest with
\* nothing changed.
SetUserRole(i, userId, role) ==
  /\ i \in 1..Len(tokens)
  /\ role \in BuiltInRole
  /\ LET claims == buildCustomClaims(userId, role, Undef, Undef, now)
     IN /\ stored' = [stored EXCEPT ![userId] = sanitizeCustomClaims(claims)]
        /\ written' = [written EXCEPT ![userId] =
                         Write("set", claims, "setUserRole", i)]
  /\ outcome' = Resolved("setCustomClaims", userId)
  /\ UNCHANGED <<tokens, issued, calls, started, now>>
  /\ UNCHANGED evalVars
  /\ UNCHANGED adapterVars

Next ==
  \/ \E u \in Users : IssueToken(u)
  \/ Tick
  \/ \E u \in Users, p \in SetInputs : SetCustomClaims(u, p)
  \/ \E u \in Users : ClearCustomClaims(u)
  \/ \E u \in Users, p \in PartialInputs : UpdateRead(u, p)
  \/ \E c \in BagToSet(calls) : UpdateWrite(c)
  \/ \E i \in 1..MaxTokens, u \in Users, r \in RoleInputs : SetUserRole(i, u, r)

Spec == Init /\ [][Next]_vars

(***************************************************************************)
(* The claims service over a provider whose calls can fail.                *)
(***************************************************************************)
\* the partial claims of promoteUserToModerator, which the caller stamped
\* at t
Promotion(t) ==
  Obj(<<Entry("role", Str(MODERATOR)),
        Entry("roles", Arr(<<Str(MODERATOR), Str(USER)>>)),
        Entry("updatedAt", Num(t))>>)

\* partial claims handed to updateCustomClaims at t: the caller built them
\* an instant earlier
SyncPartials(t) == PartialInputs \cup {Promotion(t - 1)}

\* setCustomClaims failing and leaving {} behind
SetCustomClaimsFails_Emptying(u, customClaims) ==
  /\ stored' = [stored EXCEPT ![u] = EmptyObj]
  /\ outcome' = Rejected("setCustomClaims", u, "setCustomUserClaims")
  /\ UNCHANGED <<tokens, issued, calls, started, now, written>>
  /\ UNCHANGED evalVars
  /\ UNCHANGED adapterVars

\* setCustomClaims(userId, customClaims) when auth.setCustomUserClaims
\* rejects: FirebaseAdminService throws, the catch logs and rethrows
SetCustomClaimsFails(u, customClaims) ==
  /\ outcome' = Rejected("setCustomClaims", u, "setCustomUserClaims")
  /\ UNCHANGED <<stored, tokens, issued, calls, started, now, written>>
  /\ UNCHANGED evalVars
  /\ UNCHANGED adapterVars

\* clearCustomClaims(userId) when auth.setCustomUserClaims rejects
ClearCustomClaimsFails(u) ==
  /\ outcome' = Rejected("clearCustomClaims", u, "setCustomUserClaims")
  /\ UNCHANGED <<stored, tokens, issued, calls, started, now, written>>
  /\ UNCHANGED evalVars
  /\ UNCHANGED adapterVars

\* updateCustomClaims going on with no existing claims when the read fails
UpdateReadFails_Fallback(u, partialClaims) ==
  /\ started < MaxCalls
  /\ started' = started + 1
  /\ calls' = calls (+) SetToBag({Reading(u, partialClaims, Undef)})
  /\ outcome' = Rejected("updateCustomClaims", u, "getUser")
  /\ UNCHANGED <<stored, tokens, issued, now, written>>
  /\ UNCHANGED evalVars
  /\ UNCHANGED adapterVars

\* updateCustomClaims(userId, partialClaims) when auth.getUser rejects: the
\* await throws inside the try, the catch logs and rethrows, and the merge
\* and setCustomClaims are never reached
UpdateReadFails(u, partialClaims) ==
  /\ outcome' = Rejected("updateCustomClaims", u, "getUser")
  /\ UNCHANGED <<stored, tokens, issued, calls, started, now, written>>
  /\ UNCHANGED evalVars
  /\ UNCHANGED adapterVars

\* updateCustomClaims after the read when auth.setCustomUserClaims rejects:
\* setCustomClaims rethrows, then updateCustomClaims rethrows; the call is
\* over and has written nothing
UpdateWriteFails(c) ==
  /\ BagIn(c, calls)
  /\ calls' = calls (-) SetToBag({c})
  /\ outcome' = Rejected("updateCustomClaims", c.uid, "setCustomUserClaims")
  /\ UNCHANGED <<stored, tokens, issued, started, now, written>>
  /\ UNCHANGED evalVars
  /\ UNCHANGED adapterVars

NextSync ==
  \/ Tick
  \/ \E u \in Users, p \in SetInputs : SetCustomClaims(u, p)
  \/ \E u \in Users, p \in SetInputs : SetCustomClaimsFails(u, p)
  \/ \E u \in Users : ClearCustomClaims(u)
  \/ \E u \in Users : ClearCustomClaimsFails(u)
  \/ \E u \in Users, p \in SyncPartials(now) : UpdateRead(u, p)
  \/ \E u \in Users, p \in SyncPartials(now) : UpdateReadFails(u, p)
  \/ \E c \in BagToSet(calls) : UpdateWrite(c)
  \/ \E c \in BagToSet(calls) : UpdateWriteFails(c)

SpecSync == Init /\ [][NextSync]_vars

(***************************************************************************)
(* POST /auth/signup.                                                      *)
(***************************************************************************)
\* signUp embedding the default claims before the credential is issued
SignUp_ClaimsFirst(u) ==
  LET customClaims == buildCustomClaims(u, USER, Undef, Undef, now)
  IN /\ \A i \in 1..Len(tokens) : tokens[i].uid # u
     /\ stored' = [stored EXCEPT ![u] = sanitizeCustomClaims(customClaims)]
     /\ tokens' = Append(tokens, [uid |-> u, email |-> "abc",
                                  customClaims |-> stored'[u]])
     /\ issued' = Append(issued, [stored |-> stored'[u], kind |-> "set",
                                  p |-> customClaims])
     /\ written' = [written EXCEPT ![u] = Write("set", customClaims, "signUp", 0)]
     /\ outcome' = Resolved("signUp", u)
     /\ UNCHANGED <<calls, started, now>>
     /\ UNCHANGED evalVars
     /\ UNCHANGED adapterVars

\* signUp for an address that has no account yet: the provider creates the
\* account, which has no claims, and issues the credential of the response;
\* then buildCustomClaims(localId, USER) is handed to setCustomClaims
SignUp(u) ==
  LET customClaims == buildCustomClaims(u, USER, Undef, Undef, now)
  IN /\ \A i \in 1..Len(tokens) : tokens[i].uid # u
     /\ tokens' = Append(tokens, [uid |-> u, email |-> "abc",
                                  customClaims |-> stored[u]])
     /\ issued' = Append(issued, [stored |-> stored[u], kind |-> written[u].kind,
                                  p |-> written[u].p])
     /\ stored' = [stored EXCEPT ![u] = sanitizeCustomClaims(customClaims)]
     /\ written' = [written EXCEPT ![u] = Write("set", customClaims, "signUp", 0)]
     /\ outcome' = Resolved("signUp", u)
     /\ UNCHANGED <<calls, started, now>>
     /\ UNCHANGED evalVars
     /\ UNCHANGED adapterVars

\* signUp ending in BadRequestException.  at = "signUp": the provider
\* refuses the sign-up and nothing is created.  at = "setCustomUserClaims":
\* the account was created and its credential issued, setCustomClaims
\* rethrows and the catch reports the failure; the account is not removed.
SignUpFails(u, at) ==
  /\ at = "setCustomUserClaims" =>
        /\ \A i \in 1..Len(tokens) : tokens[i].uid # u
        /\ tokens' = Append(tokens, [uid |-> u, email |-> "abc",
                                     customClaims |-> stored[u]])
        /\ issued' = Append(issued, [stored |-> stored[u],
                                     kind |-> written[u].kind,
                                     p |-> written[u].p])
  /\ at # "setCustomUserClaims" => UNCHANGED <<tokens, issued>>
  /\ outcome' = Rejected("signUp", u, at)
  /\ UNCHANGED <<stored, calls, started, now, written>>
  /\ UNCHANGED evalVars
  /\ UNCHANGED adapterVars

\* the client of an account exchanges its refresh token, or signs in: the
\* provider issues a credential with the claims stored at that moment
RefreshToken(u) ==
  /\ \E i \in 1..Len(tokens) : tokens[i].uid = u
  /\ Len(tokens) <= MaxTokens
  /\ tokens' = Append(tokens, [uid |-> u, email |-> "abc", customClaims |-> stored[u]])
  /\ issued' = Append(issued, [stored |-> stored[u], kind |-> written[u].kind,
                                p |-> written[u].p])
  /\ UNCHANGED <<stored, calls, started, now, written, outcome>>
  /\ UNCHANGED evalVars
  /\ UNCHANGED adapterVars

NextSignUp ==
  \/ \E u \in Users : SignUp(u)
  \/ \E u \in Users, at \in {"signUp", "setCustomUserClaims"} : SignUpFails(u, at)
  \/ \E u \in Users : RefreshToken(u)
  \/ Tick
  \/ \E u \in Users, role \in BuiltInRole :
       \E p \in SetInputs \cup {buildCustomClaims(u, role, Undef, Undef, now)} :
         (\E i \in 1..Len(tokens) : tokens[i].uid = u) /\ SetCustomClaims(u, p)
  \/ \E u \in Users :
       (\E i \in 1..Len(tokens) : tokens[i].uid = u) /\ ClearCustomClaims(u)

SpecSignUp == Init /\ [][NextSignUp]_vars

(***************************************************************************)
(* The evaluators applied to one input.                                    *)
(***************************************************************************)
InitEval ==
  /\ \/ /\ permIn \in PermInputs(RoleLists)
        /\ condIn = IdleCond /\ listIn = IdleList /\ staleIn = IdleStale
     \/ /\ condIn \in CondInputs
        /\ permIn = IdlePerm /\ listIn = IdleList /\ staleIn = IdleStale
     \/ /\ listIn \in ListInputs(PermissionLists)
        /\ permIn = IdlePerm /\ condIn = IdleCond /\ staleIn = IdleStale
     \/ /\ staleIn \in StaleInputs
        /\ permIn = IdlePerm /\ condIn = IdleCond /\ listIn = IdleList
  /\ permOut = "none"
  /\ condOut = "none"
  /\ listOut = NoListOut
  /\ staleOut = "none"
  /\ InitClaims
  /\ AdapterIdle

CheckPermission ==
  /\ permOut = "none"
  /\ permIn # IdlePerm
  /\ permOut' =
       IF checkPermissionThrows(permIn.user, permIn.action, permIn.resource,
                                permIn.resourceContext)
       THEN "throw"
       ELSE IF checkPermission(permIn.user, permIn.action, permIn.resource,
                               permIn.resourceContext)
            THEN "allow"
            ELSE "deny"
  /\ UNCHANGED <<permIn, condIn, condOut, listIn, listOut, staleIn, staleOut>>
  /\ UNCHANGED claimVars
  /\ UNCHANGED adapterVars

EvaluateConditions ==
  /\ condOut = "none"
  /\ condIn # IdleCond
  /\ condOut' =
       IF evaluateConditionsThrows(condIn.conditions, condIn.user,
                                   condIn.resourceContext)
       THEN "throw"
       ELSE IF evaluateConditions(condIn.conditions, condIn.user,
                                  condIn.resourceContext)
            THEN "true"
            ELSE "false"
  /\ UNCHANGED <<permIn, permOut, condIn, listIn, listOut, staleIn, staleOut>>
  /\ UNCHANGED claimVars
  /\ UNCHANGED adapterVars

CheckPermissions ==
  /\ listIn # IdleList
  /\ ~listOut.all.done
  /\ listOut' = [listOut EXCEPT !.all =
       Returning(checkPermissions(listIn.user, listIn.permissions,
                                  listIn.resourceContext))]
  /\ UNCHANGED <<permIn, permOut, condIn, condOut, listIn, staleIn, staleOut>>
  /\ UNCHANGED claimVars
  /\ UNCHANGED adapterVars

CheckAnyPermission ==
  /\ listIn # IdleList
  /\ ~listOut.any.done
  /\ listOut' = [listOut EXCEPT !.any =
       Returning(checkAnyPermission(listIn.user, listIn.permissions,
                                    listIn.resourceContext))]
  /\ UNCHANGED <<permIn, permOut, condIn, condOut, listIn, staleIn, staleOut>>
  /\ UNCHANGED claimVars
  /\ UNCHANGED adapterVars

IsCustomClaimsStale ==
  /\ staleIn # IdleStale
  /\ staleOut = "none"
  /\ staleOut' =
       IF isCustomClaimsStale(staleIn.claims, staleIn.maxAgeMs, staleIn.at)
       THEN "true"
       ELSE "false"
  /\ UNCHANGED <<permIn, permOut, condIn, condOut, listIn, listOut, staleIn>>
  /\ UNCHANGED claimVars
  /\ UNCHANGED adapterVars

NextEval ==
  \/ CheckPermission
  \/ EvaluateConditions
  \/ CheckPermissions
  \/ CheckAnyPermission
  \/ IsCustomClaimsStale

SpecEval == InitEval /\ [][NextEval]_vars

(***************************************************************************)
(* The sanitizer and the guards applied to one input.                      *)
(***************************************************************************)
EvalIdle ==
  /\ permIn = IdlePerm
  /\ permOut = "none"
  /\ condIn = IdleCond
  /\ condOut = "none"
  /\ listIn = IdleList
  /\ listOut = NoListOut
  /\ staleIn = IdleStale
  /\ staleOut = "none"

InitAdapter ==
  /\ \/ /\ sanIn \in SanInputs(NestedValues(MaxDepth))
        /\ sanOut = NoSan
        /\ TokIdle /\ RoleIdle
        /\ reqIn = IdleRequest /\ reqOut = "none"
        /\ EvalIdle
     \/ /\ tokIn \in TokenInputs
        /\ ctxOut = NoContext
        /\ SanIdle /\ RoleIdle
        /\ reqIn = IdleRequest /\ reqOut = "none"
        /\ EvalIdle
     \/ /\ roleIn \in RoleGuardInputs(RoleLists) \ {IdleRole}
        /\ roleOut = "none"
        /\ SanIdle /\ TokIdle
        /\ reqIn = IdleRequest /\ reqOut = "none"
        /\ EvalIdle
     \/ /\ reqIn \in RequestInputs
        /\ reqOut = "none"
        /\ SanIdle /\ TokIdle /\ RoleIdle
        /\ EvalIdle
     \/ /\ condIn \in OperatorInputs
        /\ condOut = "none"
        /\ permIn = IdlePerm /\ permOut = "none"
        /\ listIn = IdleList /\ listOut = NoListOut
        /\ staleIn = IdleStale /\ staleOut = "none"
        /\ AdapterIdle
  /\ InitClaims

SanitizeCustomClaims ==
  /\ sanIn # IdleSan
  /\ ~sanOut.done
  /\ sanOut' = [done |-> TRUE, value |-> sanitizeCustomClaims(sanIn)]
  /\ UNCHANGED <<sanIn, tokIn, ctxOut, roleIn, roleOut, reqIn, reqOut>>
  /\ UNCHANGED <<permIn, permOut, condIn, condOut, listIn, listOut, staleIn, staleOut>>
  /\ UNCHANGED <<stored, tokens, issued, calls, started, now, written, outcome>>

\* FirebaseAuthGuard.canActivate leaving roles and attributes undefined
\* when the credential carries none
CanActivate_NoDefaults ==
  /\ tokIn # IdleToken
  /\ ~ctxOut.done
  /\ ctxOut' = [done |-> TRUE,
                user |-> [authorizationContext(tokIn) EXCEPT
                            !.roles = claimOf(tokIn, "roles"),
                            !.attributes = claimOf(tokIn, "attributes")]]
  /\ UNCHANGED <<sanIn, sanOut, tokIn, roleIn, roleOut, reqIn, reqOut>>
  /\ UNCHANGED <<permIn, permOut, condIn, condOut, listIn, listOut, staleIn, staleOut>>
  /\ UNCHANGED <<stored, tokens, issued, calls, started, now, written, outcome>>

\* FirebaseAuthGuard.canActivate on a credential that verifyIdToken accepted
CanActivate ==
  /\ tokIn # IdleToken
  /\ ~ctxOut.done
  /\ ctxOut' = [done |-> TRUE, user |-> authorizationContext(tokIn)]
  /\ UNCHANGED <<sanIn, sanOut, tokIn, roleIn, roleOut, reqIn, reqOut>>
  /\ UNCHANGED <<permIn, permOut, condIn, condOut, listIn, listOut, staleIn, staleOut>>
  /\ UNCHANGED <<stored, tokens, issued, calls, started, now, written, outcome>>

\* RoleGuard.canActivate
RoleGuard ==
  /\ roleIn # IdleRole
  /\ roleOut = "none"
  /\ roleOut' = roleGuard(roleIn.requiredRoles, roleIn.user)
  /\ UNCHANGED <<sanIn, sanOut, tokIn, ctxOut, roleIn, reqIn, reqOut>>
  /\ UNCHANGED <<permIn, permOut, condIn, condOut, listIn, listOut, staleIn, staleOut>>
  /\ UNCHANGED <<stored, tokens, issued, calls, started, now, written, outcome>>

\* PermissionGuard.canActivate
PermissionGuard ==
  /\ reqIn # IdleRequest
  /\ reqOut = "none"
  /\ reqOut' = permissionGuard(reqIn.requiredPermissions, reqIn.request)
  /\ UNCHANGED <<sanIn, sanOut, tokIn, ctxOut, roleIn, roleOut, reqIn>>
  /\ UNCHANGED <<permIn, permOut, condIn, condOut, listIn, listOut, staleIn, staleOut>>
  /\ UNCHANGED <<stored, tokens, issued, calls, started, now, written, outcome>>

NextAdapter ==
  \/ SanitizeCustomClaims
  \/ CanActivate
  \/ RoleGuard
  \/ PermissionGuard
  \/ EvaluateConditions

SpecAdapter == InitAdapter /\ [][NextAdapter]_vars

(***************************************************************************)
(* Properties of the permission evaluator.                                 *)
(***************************************************************************)
PermRoles == permIn.user.roles

PermAttr(key) == Get(permIn.user.attributes, key)

PermRc(key) ==
  IF permIn.resourceContext = Undef THEN Undef
  ELSE Get(permIn.resourceContext, key)

PermAdmin == \E i \in 1..Len(PermRoles) : PermRoles[i] = "admin"

\* C1: a context whose roles contain admin is allowed every action on every
\* resource, whatever the other roles, the attributes and the resource
\* context are.
C1_AdminBypass == (permOut # "none" /\ PermAdmin) => permOut = "allow"

C1_Witness ==
  /\ permOut = "allow"
  /\ PermRoles = <<"ghost", "admin">>
  /\ permIn.action = "fly"
  /\ permIn.resource = "ufo"
  /\ permIn.resourceContext = Undef

\* some registered, active role of the context owns a rule that matches the
\* action and the resource and whose conditions, if any, are satisfied
SomeRuleAllows ==
  \E i \in 1..Len(PermRoles) :
    /\ PermRoles[i] \in DOMAIN builtInRoles
    /\ builtInRoles[PermRoles[i]].active
    /\ \E j \in 1..Len(builtInRoles[PermRoles[i]].abacRules) :
         LET rule == builtInRoles[PermRoles[i]].abacRules[j]
         IN /\ rule.action = "*" \/ rule.action = permIn.action
            /\ rule.resource = "*" \/ rule.resource = permIn.resource
            /\ \/ rule.conditions = Undef
               \/ evaluateConditions(rule.conditions, permIn.user,
                                     permIn.resourceContext)

\* C2: without the admin role, checkPermission allows exactly when some
\* registered active role of the context owns a matching rule whose conditions
\* are absent or satisfied; otherwise it denies, and it never raises.
C2_AllowIffSomeRule ==
  (permOut # "none" /\ ~PermAdmin) =>
    /\ permOut \in {"allow", "deny"}
    /\ permOut = "allow" <=> SomeRuleAllows

C2_Witness ==
  /\ permOut = "deny"
  /\ PermRoles = <<"ghost", "user">>
  /\ permIn.action = "create"
  /\ permIn.resource = "ufo"

(***************************************************************************)
(* Properties of the condition evaluator.                                  *)
(***************************************************************************)
CondAttr(key) == Get(condIn.user.attributes, key)

CondRc(key) ==
  IF condIn.resourceContext = Undef THEN Undef
  ELSE Get(condIn.resourceContext, key)

\* C7: {k: true} is satisfied exactly when the caller's attribute k or the
\* resource context's k is the boolean true; so a user without attributes
\* may update a task with resourceOwner true in the resource context and
\* may not with resourceOwner false or without a resource context.
C7_FlagEitherSource ==
  /\ (condOut # "none" /\ condIn.conditions = Flag("teamMember")) =>
       (condOut = "true" <=>
          (CondAttr("teamMember") = Bool(TRUE) \/ CondRc("teamMember") = Bool(TRUE)))
  /\ (/\ permOut # "none"
      /\ PermRoles = <<"user">>
      /\ permIn.user.attributes = EmptyObj
      /\ permIn.action = "update"
      /\ permIn.resource = "task") =>
       (permOut = "allow" <=> PermRc("resourceOwner") = Bool(TRUE))

C7_Witness ==
  /\ permOut = "allow"
  /\ PermRoles = <<"user">>
  /\ permIn.user.attributes = EmptyObj
  /\ permIn.action = "update"
  /\ permIn.resource = "task"
  /\ permIn.resourceContext = Flag("resourceOwner")

\* C8: {userId: "${userId}"} is satisfied exactly when the caller's userId
\* attribute or the resource context's userId is the caller's own id; a
\* user-role caller reads or updates the user resource only under that
\* equality, never by carrying the placeholder itself.
C8_OwnUserTemplate ==
  /\ (condOut # "none" /\ condIn.conditions = OwnUser) =>
       (condOut = "true" <=>
          (CondAttr("userId") = condIn.user.userId
             \/ CondRc("userId") = condIn.user.userId))
  /\ (/\ permOut # "none"
      /\ PermRoles = <<"user">>
      /\ permIn.resource = "user"
      /\ permIn.action \in {"read", "update"}) =>
       (permOut = "allow" <=>
          (PermAttr("userId") = permIn.user.userId
             \/ PermRc("userId") = permIn.user.userId))

C8_Witness ==
  /\ permOut = "deny"
  /\ PermRoles = <<"user">>
  /\ permIn.resource = "user"
  /\ permIn.action = "read"
  /\ PermAttr("userId") = Str("${userId}")
  /\ permIn.resourceContext = Undef

\* the value the operators are evaluated against
AgeValue == IF CondAttr("age") # Undef THEN CondAttr("age") ELSE CondRc("age")

\* v is a number, or converts to one
Orderable(v) == v.t \in {"num", "bool", "null"} \/ v = Str("20") \/ v = Str("")

AsNumber(v) == IF v.t = "str" THEN (IF v.s = "20" THEN 20 ELSE 0) ELSE v.n

\* C9: {age: {$gte: 18, $lt: 65}} is satisfied only when 18 <= v and v < 65
\* for the evaluated value v; for every other v, an absent age included, the
\* condition fails.
C9_AgeRangeBothBounds ==
  (condOut # "none" /\ condIn.conditions = AgeRange) =>
    (condOut = "true" =>
       /\ Orderable(AgeValue)
       /\ 18 <= AsNumber(AgeValue)
       /\ AsNumber(AgeValue) < 65)

\* C10: for $gt, $lt, $gte and $lte, a value that cannot be ordered against
\* the operand (absent from both sources, or of a non-orderable type) fails
\* the comparison, so the condition map fails, and nothing is raised.
C10_NonComparableFails ==
  (condOut # "none" /\ condIn.conditions \in OrderConditions
     /\ ~Orderable(AgeValue)) =>
    condOut = "false"

(***************************************************************************)
(* Properties of the claims synchronizer.                                  *)
(***************************************************************************)
TokenIds == 1..Len(tokens)

\* C3: a credential keeps the payload that was stored for its user when it
\* was issued, whatever setCustomClaims, updateCustomClaims and
\* clearCustomClaims do afterwards.
C3_IssuedCredentialsUntouched ==
  \A i \in TokenIds : tokens[i].customClaims = issued[i].stored

C3_Witness ==
  \E i \in TokenIds :
    /\ written[tokens[i].uid].p # issued[i].p
    /\ stored[tokens[i].uid] # tokens[i].customClaims
    /\ tokens[i].customClaims = issued[i].stored

\* C4: a credential issued after a successful setCustomClaims(u, p), and
\* before the next write for u, embeds the sanitized p, and the context
\* built from it carries p's roles and attributes.
C4_NextCredentialCarriesWrite ==
  \A i \in TokenIds :
    issued[i].kind = "set" =>
      LET sanitized == sanitizeCustomClaims(issued[i].p)
          user == authorizationContext(tokens[i])
      IN /\ tokens[i].customClaims = sanitized
         /\ ~Falsy(Get(sanitized, "roles")) => user.roles = Get(sanitized, "roles")
         /\ ~Falsy(Get(sanitized, "attributes")) =>
              user.attributes = Get(sanitized, "attributes")

C4_Witness ==
  \E i \in TokenIds :
    /\ issued[i].kind = "set"
    /\ issued[i].p = RawClaims
    /\ authorizationContext(tokens[i]).roles = Arr(<<Str("admin"), Str("user")>>)
    /\ authorizationContext(tokens[i]).attributes = Flag("boardAdmin")

ObjKeys(o) == {o.kids[i].k : i \in 1..Len(o.kids)}

\* C5: when two updateCustomClaims calls for one user both read before
\* either writes, the later write wins: it stores the later caller's partial
\* merged over what that caller read, and the fields only the earlier caller
\* changed are back at what the later caller read; both calls return.
C5_LaterWriteWins ==
  [][\A later \in BagToSet(calls) :
       (later.missed # {} /\ calls' = Returned(later)) =>
         /\ stored'[later.uid] =
              sanitizeCustomClaims(mergedClaims(later.existing, later.partial, now))
         /\ \A earlier \in later.missed :
              \A key \in ObjKeys(earlier) \ ObjKeys(later.partial) :
                Get(stored'[later.uid], key) = Get(later.existing, key)]_vars

C5_Witness ==
  \E u \in Users :
    /\ started - BagCardinality(calls) >= 2
    /\ written[u].kind = "set"
    /\ Obj(<<Entry("role", Str("guest"))>>) \in written[u].lost
    /\ Get(stored[u], "attributes") = Flag("teamMember")
    /\ Get(stored[u], "role") # Str("guest")

\* C6: setUserRole changes the stored claims of a user only for a caller
\* whose verified credential carries the admin role.
C6_SetUserRoleAdminOnly ==
  \A u \in Users :
    written[u].via = "setUserRole" =>
      rolesInclude(authorizationContext(tokens[written[u].by]).roles, ADMIN)
(***************************************************************************)
(* Rule order, role order, composite checks and the role table.            *)
(***************************************************************************)
\* conditions of the conditioned rule of a two-rule list
OrderedConditions == {Flag("teamMember"), OwnUser}

\* the loop of checkPermission over an explicit rule list
allowedBy(rules, p) ==
  firstMatch(rules, p.action, p.resource, p.user, p.resourceContext) # 0

\* whether the two orders of a conditioned and an unconditioned rule for the
\* requested action and resource decide request p differently
orderChanges(c, p) ==
  LET conditioned == Rule(p.action, p.resource, c)
      unconditioned == Rule(p.action, p.resource, Undef)
  IN allowedBy(<<conditioned, unconditioned>>, p)
       # allowedBy(<<unconditioned, conditioned>>, p)

decidedWith(roles) ==
  checkPermission([permIn.user EXCEPT !.roles = roles], permIn.action,
                  permIn.resource, permIn.resourceContext)

Reversed(roles) == [i \in 1..Len(roles) |-> roles[Len(roles) + 1 - i]]

\* C12: for a caller without the admin role the decision is the disjunction
\* of the decisions for each of its roles alone, and the order of the roles
\* does not change it.
C12_RolesDisjunction ==
  (permOut # "none" /\ ~hasAdminRole(PermRoles)) =>
    /\ (permOut = "allow") <=>
         \E i \in 1..Len(PermRoles) : decidedWith(<<PermRoles[i]>>)
    /\ (permOut = "allow") <=> decidedWith(Reversed(PermRoles))

\* user and moderator with boardAdmin: manage on board is allowed by the
\* moderator rule although the user role alone denies it
C12_Witness ==
  /\ permOut = "allow"
  /\ PermRoles = <<USER, MODERATOR>>
  /\ permIn.user.attributes = Flag("boardAdmin")
  /\ permIn.action = "manage"
  /\ permIn.resource = "board"
  /\ ~decidedWith(<<USER>>)
  /\ decidedWith(<<MODERATOR>>)

\* the decision of checkPermission for pair i of the list of listIn
ListAllows(i) ==
  checkPermission(listIn.user, listIn.permissions[i][1], listIn.permissions[i][2],
                  listIn.resourceContext)

ListIds == 1..Len(listIn.permissions)

\* the checks made by a scan that stops at the first pair satisfying Stop
ChecksUntil(Stop(_)) ==
  IF \E i \in ListIds : Stop(i)
  THEN CHOOSE i \in ListIds : Stop(i) /\ \A j \in 1..(i - 1) : ~Stop(j)
  ELSE Len(listIn.permissions)

FlagTrue(key) ==
  \/ StrictEq(PermAttr(key), Bool(TRUE))
  \/ StrictEq(PermRc(key), Bool(TRUE))

\* C14: a caller whose only role is guest is denied every action other than
\* read, and is allowed read only on a board or a task with boardMember true
\* for the caller or for the resource.
C14_GuestReadOnly ==
  (permOut # "none" /\ PermRoles = <<GUEST>>) =>
    /\ permIn.action # "read" => permOut = "deny"
    /\ permOut = "allow" =>
         /\ permIn.action = "read"
         /\ permIn.resource \in {"board", "task"}
         /\ FlagTrue("boardMember")
    /\ permOut # "throw"

\* a guest who is a member of the board asks to create a task: denied
C14_Witness ==
  /\ PermRoles = <<GUEST>>
  /\ permIn.action = "create"
  /\ permIn.resource = "task"
  /\ FlagTrue("boardMember")
  /\ permOut = "deny"

\* C15: a caller whose only role is user is allowed create and read on a
\* board, a task and a comment exactly when the membership attribute the
\* rule names is true, and update and delete on a task and a comment exactly
\* when resourceOwner is true, for the caller or for the resource.
C15_UserRoleTable ==
  (permOut # "none" /\ PermRoles = <<USER>>) =>
    /\ (permIn.action \in {"create", "read"}
          /\ permIn.resource \in {"board", "task", "comment"}) =>
         (permOut = "allow") <=>
           IF permIn.action = "create" /\ permIn.resource = "board"
           THEN FlagTrue("teamMember")
           ELSE FlagTrue("boardMember")
    /\ (permIn.action \in {"update", "delete"}
          /\ permIn.resource \in {"task", "comment"}) =>
         (permOut = "allow") <=> FlagTrue("resourceOwner")

(***************************************************************************)
(* Staleness of the claims.                                                *)
(***************************************************************************)
\* the maxAgeMs in force at the call of staleIn
StaleMaxAge ==
  IF staleIn.maxAgeMs = Undef THEN DefaultMaxAgeMs ELSE staleIn.maxAgeMs.n

\* C20: isCustomClaimsStale returns true exactly when the claims are absent,
\* or carry no updatedAt, or are older than maxAgeMs (24 hours by default) at
\* the time of the call.
C20_StaleExactly ==
  staleOut # "none" =>
    ((staleOut = "true") <=>
       \/ staleIn.claims \in {Undef, Null}
       \/ ~Has(staleIn.claims, "updatedAt")
       \/ staleIn.at - Get(staleIn.claims, "updatedAt").n > StaleMaxAge)

\* C18: once clearCustomClaims(u) has returned, the claims stored for u are
\* empty, and the context built from a credential issued for u before the
\* next write has roles [guest] and no attributes, whatever roles u held
\* before, admin included.
C18_ClearedMeansGuest ==
  /\ \A u \in Users : written[u].kind = "clear" => stored[u] = EmptyObj
  /\ \A i \in TokenIds :
       issued[i].kind = "clear" =>
         /\ tokens[i].customClaims = EmptyObj
         /\ authorizationContext(tokens[i]).roles = Arr(<<Str(GUEST)>>)
         /\ authorizationContext(tokens[i]).attributes = EmptyObj

\* an update that read u's claims while u was admin is still in flight: the
\* clear came after that read, and no write has followed the clear
C18_Witness ==
  \E i \in TokenIds : \E c \in BagToSet(calls) :
    /\ c.uid = tokens[i].uid
    /\ rolesInclude(Get(c.existing, "roles"), ADMIN)
    /\ issued[i].kind = "clear"
    /\ written[c.uid].kind = "clear"
    /\ authorizationContext(tokens[i]).roles = Arr(<<Str(GUEST)>>)
    /\ authorizationContext(tokens[i]).attributes = EmptyObj

\* C16: when the read of the current claims fails during
\* updateCustomClaims(u, partial), the call rejects, no write is started or
\* made for it, and the claims stored for u are unchanged.
C16_FailedReadWritesNothing ==
  [][\A u \in Users :
       (outcome' # outcome
          /\ outcome' = Rejected("updateCustomClaims", u, "getUser")) =>
         /\ ~outcome'.ok
         /\ stored'[u] = stored[u]
         /\ written'[u] = written[u]
         /\ calls' = calls]_vars

C16_Witness ==
  \E u \in Users :
    /\ outcome = Rejected("updateCustomClaims", u, "getUser")
    /\ stored[u] = sanitizeCustomClaims(RawClaims)
    /\ written[u].p = RawClaims
    /\ calls = EmptyBag

\* C17: when the provider's write fails during setCustomClaims,
\* updateCustomClaims or clearCustomClaims, the call rejects and the claims
\* stored for the user are what they were.
C17_FailedWriteChangesNothing ==
  [][\A u \in Users :
       \A op \in {"setCustomClaims", "updateCustomClaims", "clearCustomClaims"} :
         (outcome' # outcome
            /\ outcome' = Rejected(op, u, "setCustomUserClaims")) =>
           /\ ~outcome'.ok
           /\ stored'[u] = stored[u]
           /\ written'[u] = written[u]]_vars

C17_Witness ==
  \E u \in Users :
    /\ outcome = Rejected("updateCustomClaims", u, "setCustomUserClaims")
    /\ stored[u] = sanitizeCustomClaims(RawClaims)
    /\ started > BagCardinality(calls)

\* C19: an updateCustomClaims(u, partial) that succeeds with no other write
\* for u between its read and its write stores the sanitized merge of
\* partial over the claims it read: the fields partial names take partial's
\* values, the other fields keep theirs, and updatedAt is the time of the
\* merge even when partial carries an updatedAt; with nothing stored before,
\* the result is partial plus updatedAt.
C19_UpdateMerges ==
  [][\A c \in BagToSet(calls) :
       (/\ calls' = Returned(c)
        /\ outcome' = Resolved("updateCustomClaims", c.uid)
        /\ c.missed = {}
        /\ stored[c.uid] = c.existing) =>
         LET before == stored[c.uid]
             after == stored'[c.uid]
             named == ObjKeys(c.partial) \ {"updatedAt"}
             given == sanitizeCustomClaims(c.partial)
         IN /\ \A key \in named : Get(after, key) = Get(given, key)
            /\ \A key \in ObjKeys(before) \ (named \cup {"updatedAt"}) :
                 Get(after, key) = Get(before, key)
            /\ Get(after, "updatedAt") = Num(now)
            /\ ObjKeys(after) =
                 (ObjKeys(before) \ named) \cup ObjKeys(given) \cup {"updatedAt"}
            /\ ObjKeys(before) = {} =>
                 after = sanitizeCustomClaims(Put(c.partial, "updatedAt", Num(now)))]_vars

\* a promotion, stamped by its caller before time 1, merged at time 1 over
\* the claims of an admin
C19_Witness ==
  \E u \in Users :
    /\ outcome = Resolved("updateCustomClaims", u)
    /\ written[u].lost = {}
    /\ Get(stored[u], "role") = Str(MODERATOR)
    /\ Get(stored[u], "roles") = Arr(<<Str(MODERATOR), Str(USER)>>)
    /\ Get(stored[u], "attributes") = Flag("boardAdmin")
    /\ Get(stored[u], "updatedAt") = Num(1)

(***************************************************************************)
(* Properties of the sanitizer.                                            *)
(***************************************************************************)
\* no object inside v, v included, has a field whose value is undefined
RECURSIVE NoUndefinedField(_)
NoUndefinedField(v) ==
  /\ v.t = "obj" => \A i \in 1..Len(v.kids) : v.kids[i].v.t # "undef"
  /\ \A i \in 1..Len(v.kids) : NoUndefinedField(v.kids[i].v)

RECURSIVE HasUndefinedField(_)
HasUndefinedField(v) ==
  \/ v.t = "obj" /\ \E i \in 1..Len(v.kids) : v.kids[i].v.t = "undef"
  \/ \E i \in 1..Len(v.kids) : HasUndefinedField(v.kids[i].v)

\* C21: sanitizing sanitized claims gives the same structure again, and
\* sanitized claims have no field whose value is undefined.
C21_SanitizeIdempotent ==
  sanOut.done =>
    /\ sanitizeCustomClaims(sanOut.value) = sanOut.value
    /\ NoUndefinedField(sanOut.value)

C21_Witness ==
  /\ sanOut.done
  /\ HasUndefinedField(Get(sanIn, "attributes"))
  /\ Get(sanIn, "role") = Fn
  /\ sanOut.value # sanIn
  /\ sanOut.value # EmptyObj

\* the rules as stated: primitives unchanged, arrays element-wise, objects
\* key by key without the keys whose value is undefined, anything else null
RECURSIVE statedRules(_)
RECURSIVE statedEntries(_)
statedEntries(entries) ==
  IF entries = <<>> THEN <<>>
  ELSE IF Head(entries).v.t = "undef" THEN statedEntries(Tail(entries))
  ELSE <<Entry(Head(entries).k, statedRules(Head(entries).v))>>
         \o statedEntries(Tail(entries))

statedRules(value) ==
  CASE value.t \in {"str", "num", "bool", "null", "undef"} -> value
    [] value.t = "arr" ->
         [value EXCEPT !.kids =
            [i \in 1..Len(value.kids) |-> Entry("", statedRules(value.kids[i].v))]]
    [] value.t = "obj" -> Obj(statedEntries(value.kids))
    [] OTHER -> Null

\* C22: the sanitizer of setCustomClaims follows the rules at every level,
\* the top level of the claims included: string, number, boolean and null
\* unchanged, arrays element-wise, objects key by key without the keys
\* whose value is undefined, any other value null.
C22_RulesAtEveryLevel ==
  sanOut.done => sanOut.value = statedRules(sanIn)

(***************************************************************************)
(* Properties of the guards.                                               *)
(***************************************************************************)
\* C23 as stated: roles are [guest] whenever the credential carries no
\* roles and attributes are {} whenever it carries no attributes; otherwise
\* they are the credential's; userId and email are its uid and email.
C23_GuestWithoutRoles ==
  ctxOut.done =>
    /\ ctxOut.user.userId = Str(tokIn.uid)
    /\ ctxOut.user.email = Str(tokIn.email)
    /\ ctxOut.user.roles =
         IF Falsy(claimOf(tokIn, "roles")) THEN Arr(<<Str(GUEST)>>)
         ELSE claimOf(tokIn, "roles")
    /\ ctxOut.user.attributes =
         IF Falsy(claimOf(tokIn, "attributes")) THEN EmptyObj
         ELSE claimOf(tokIn, "attributes")

\* C23, amended: without roles the context takes the one role of the
\* credential's role field, and [guest] only when that is missing too.
C23_RolesRoleGuest ==
  ctxOut.done =>
    /\ ctxOut.user.userId = Str(tokIn.uid)
    /\ ctxOut.user.email = Str(tokIn.email)
    /\ ~Falsy(claimOf(tokIn, "roles")) =>
         ctxOut.user.roles = claimOf(tokIn, "roles")
    /\ (Falsy(claimOf(tokIn, "roles")) /\ ~Falsy(claimOf(tokIn, "role"))) =>
         ctxOut.user.roles = Arr(<<claimOf(tokIn, "role")>>)
    /\ (Falsy(claimOf(tokIn, "roles")) /\ Falsy(claimOf(tokIn, "role"))) =>
         ctxOut.user.roles = Arr(<<Str(GUEST)>>)
    /\ ctxOut.user.attributes =
         IF Falsy(claimOf(tokIn, "attributes")) THEN EmptyObj
         ELSE claimOf(tokIn, "attributes")

C23_Witness ==
  /\ ctxOut.done
  /\ tokIn.customClaims = Obj(<<Entry("role", Str(ADMIN))>>)
  /\ ctxOut.user.roles = Arr(<<Str(ADMIN)>>)
  /\ ctxOut.user.attributes = EmptyObj

\* C24: behind RoleGuard a route marked RequireModerator admits the
\* authenticated callers whose roles contain moderator or admin and forbids
\* the others, a route marked RequireAdmin admits those whose roles contain
\* admin, and a route without required roles admits every caller.
C24_RoleShortcuts ==
  (roleOut # "none" /\ roleIn.user # Undef) =>
    LET has(role) == rolesInclude(roleIn.user.roles, role)
    IN /\ roleIn.requiredRoles = RequireModerator =>
            (roleOut = "allow" <=> (has(MODERATOR) \/ has(ADMIN)))
       /\ roleIn.requiredRoles = RequireAdmin =>
            (roleOut = "allow" <=> has(ADMIN))
       /\ roleIn.requiredRoles \in {Undef, Arr(<<>>)} => roleOut = "allow"

(***************************************************************************)
(* Properties of the operator maps.                                        *)
(***************************************************************************)
\* every operator of the map passes on value v
allPass(operators, v) ==
  \A i \in 1..Len(operators.kids) :
    operatorPasses(operators.kids[i].k, operators.kids[i].v, v)

\* C25: an operator map is evaluated against the caller's attribute when
\* that is defined and against the resource-context value only when it is
\* undefined: a defined attribute that fails an operator fails the
\* condition even when the resource-context value would pass them all.
C25_UserValueFirst ==
  (condOut # "none" /\ Get(condIn.conditions, "age").t = "obj") =>
    LET operators == Get(condIn.conditions, "age")
    IN /\ CondAttr("age").t # "undef" =>
            (condOut = "true" <=> allPass(operators, CondAttr("age")))
       /\ CondAttr("age").t = "undef" =>
            (condOut = "true" <=> allPass(operators, CondRc("age")))

C25_Witness ==
  /\ condOut = "false"
  /\ condIn.conditions = AgeRange
  /\ CondAttr("age") = Num(17)
  /\ CondRc("age") = Num(19)
  /\ allPass(Get(AgeRange, "age"), CondRc("age"))

\* C26: operator keys outside the known ones are ignored: a map of unknown
\* keys only, an empty map or a plain nested object is satisfied for every
\* value, and an unknown key added to a map does not change its result.
C26_UnknownOperatorsIgnored ==
  (condOut # "none" /\ condIn \in OperatorInputs) =>
    LET operators == Get(condIn.conditions, "age")
        value == IF CondAttr("age").t # "undef" THEN CondAttr("age")
                 ELSE CondRc("age")
        known == {i \in 1..Len(operators.kids) : operators.kids[i].k \in KnownOps}
    IN /\ condOut # "throw"
       /\ condOut = "true" <=>
            \A i \in known :
              operatorPasses(operators.kids[i].k, operators.kids[i].v, value)

\* an unknown key next to a known operator that fails, and maps of unknown
\* keys only that pass
C26_Witness ==
  /\ condIn \in OperatorInputs
  /\ \/ /\ condOut = "false"
        /\ Get(condIn.conditions, "age") =
             Obj(<<Entry("$gt", Num(18)), Entry("$regex", Str("a"))>>)
        /\ CondAttr("age") = Num(17)
     \/ /\ condOut = "true"
        /\ Get(condIn.conditions, "age") =
             Obj(<<Entry("name", Str("x")), Entry("size", Num(2))>>)
        /\ CondAttr("age") = Str("abc")

(***************************************************************************)
(* Properties of the claims carried in a credential.                       *)
(***************************************************************************)
\* credentials t and u agree on roles and attributes, and on the primary
\* role when they carry no roles
SameRolesAndAttributes(t, u) ==
  /\ t.uid = u.uid
  /\ claimOf(t, "roles") = claimOf(u, "roles")
  /\ claimOf(t, "attributes") = claimOf(u, "attributes")
  /\ Falsy(claimOf(t, "roles")) => claimOf(t, "role") = claimOf(u, "role")

\* C27: two credentials of one user that agree on roles and attributes and
\* differ in permissionRules, or in the primary role while roles is there,
\* get the same checkPermission result for every action, resource and
\* resource context: the rules carried in the claims are never consulted.
C27_CarriedRulesIgnored ==
  ctxOut.done =>
    \A other \in TokenInputs :
      SameRolesAndAttributes(tokIn, other) =>
        \A a \in Actions, r \in Resources,
           rc \in {Undef, Flag("boardAdmin"), Flag("resourceOwner")} :
          checkPermission(asCaller(ctxOut.user), a, r, rc)
            = checkPermission(asCaller(authorizationContext(other)), a, r, rc)

\* a credential with roles [user], primary role admin and a carried rule
\* granting everything is denied what the user role does not grant
C27_Witness ==
  /\ ctxOut.done
  /\ claimOf(tokIn, "roles") = Arr(<<Str(USER)>>)
  /\ claimOf(tokIn, "role") = Str(ADMIN)
  /\ claimOf(tokIn, "permissionRules") = Arr(<<CarriedRule>>)
  /\ ~checkPermission(asCaller(ctxOut.user), "delete", "user", Undef)
  /\ \E other \in TokenInputs :
       /\ SameRolesAndAttributes(tokIn, other)
       /\ Falsy(claimOf(other, "permissionRules"))
       /\ Falsy(claimOf(other, "role"))

(***************************************************************************)
(* Properties of the primary role and the roles list.                      *)
(***************************************************************************)
\* C28: updateCustomClaims(u, {role: r}) on stored claims that have a roles
\* list changes role and updatedAt only; the context built from a
\* credential issued afterwards carries the old roles, not r, and the
\* stored claims can hold a role that is not one of the roles.
C28_RoleUpdateKeepsRoles ==
  /\ [][\A c \in BagToSet(calls) :
          (/\ ObjKeys(c.partial) = {"role"}
           /\ ~Falsy(Get(c.existing, "roles"))
           /\ stored[c.uid] = c.existing
           /\ outcome' = Resolved("updateCustomClaims", c.uid)
           /\ calls' = Returned(c)) =>
            /\ Get(stored'[c.uid], "role") = Get(c.partial, "role")
            /\ \A key \in ObjKeys(stored[c.uid]) \ {"role", "updatedAt"} :
                 Get(stored'[c.uid], key) = Get(stored[c.uid], key)
            /\ ObjKeys(stored'[c.uid]) =
                 ObjKeys(stored[c.uid]) \cup {"role", "updatedAt"}]_vars
  /\ [](\A i \in TokenIds :
          LET claims == tokens[i].customClaims
          IN (~Falsy(Get(claims, "roles"))
                /\ ~Includes(Get(claims, "roles"), Get(claims, "role"))) =>
               /\ authorizationContext(tokens[i]).roles = Get(claims, "roles")
               /\ ~Includes(authorizationContext(tokens[i]).roles,
                            Get(claims, "role")))

\* an admin whose primary role was updated to guest: the next credential
\* still decides as admin
C28_Witness ==
  \E i \in TokenIds :
    /\ outcome = Resolved("updateCustomClaims", tokens[i].uid)
    /\ tokens[i].customClaims = stored[tokens[i].uid]
    /\ Get(tokens[i].customClaims, "role") = Str(GUEST)
    /\ Get(tokens[i].customClaims, "roles") = Arr(<<Str(ADMIN), Str(USER)>>)
    /\ authorizationContext(tokens[i]).roles = Arr(<<Str(ADMIN), Str(USER)>>)
    /\ checkPermission(asCaller(authorizationContext(tokens[i])),
                       "delete", "user", Undef)

(***************************************************************************)
(* Properties of PermissionGuard.                                          *)
(***************************************************************************)
\* the condition keys of the built-in rules
ConditionKeys ==
  UNION {UNION {ObjKeys(builtInRoles[role].abacRules[i].conditions) :
                  i \in DOMAIN builtInRoles[role].abacRules} :
           role \in BuiltInRole}

\* C29: the decision of PermissionGuard depends on the caller's roles and
\* attributes only: the resource context it builds has no other keys than
\* resourceId, teamId, boardId, listId, taskId, ownerId and createdBy, none
\* of them a condition key of a built-in rule, so requests of one caller
\* that differ in params or body get the same outcome.
C29_RequestIndependent ==
  reqOut # "none" =>
    /\ ObjKeys(extractResourceContext(reqIn.request)) \subseteq
         {"resourceId", "teamId", "boardId", "listId", "taskId", "ownerId",
          "createdBy"}
    /\ ObjKeys(extractResourceContext(reqIn.request)) \cap ConditionKeys = {}
    /\ \A p \in RequestParams, b \in RequestBodies :
         permissionGuard(reqIn.requiredPermissions,
                         [reqIn.request EXCEPT !.params = p, !.body = b])
           = reqOut

\* a user who is no board member, sending a body that names the condition
\* keys, is forbidden to read a board as without that body
C29_Witness ==
  /\ reqOut = "forbidden"
  /\ reqIn.requiredPermissions = <<<<"read", "board">>>>
  /\ reqIn.request.user # Undef
  /\ reqIn.request.user.roles = Arr(<<Str(USER)>>)
  /\ Get(reqIn.request.body, "boardMember") = Bool(TRUE)
  /\ Get(extractResourceContext(reqIn.request), "ownerId") = Str("u2")

(***************************************************************************)
(* Properties of signUp.                                                   *)
(***************************************************************************)
\* the credential that the provider issued when it created u's account
SignUpToken(u) == CHOOSE i \in TokenIds : tokens[i].uid = u

\* C30: signUp returns the credential that the provider issued before the
\* default claims were embedded: after a successful signUp the stored payload
\* has role user and roles [user], while the context built from the returned
\* credential has roles [guest], and keeps them whatever is stored later; a
\* credential obtained while the default claims are stored has roles [user].
\* When embedding the default claims fails, signUp reports the failure and
\* the created account stays without claims.
C30_SignUpCredentialIsGuest ==
  /\ [][\A u \in Users :
          (/\ \A i \in TokenIds : tokens[i].uid # u
           /\ outcome' = Resolved("signUp", u)) =>
            /\ Len(tokens') = Len(tokens) + 1
            /\ Get(stored'[u], "role") = Str(USER)
            /\ Get(stored'[u], "roles") = Arr(<<Str(USER)>>)
            /\ tokens'[Len(tokens')].uid = u
            /\ authorizationContext(tokens'[Len(tokens')]).roles
                 = Arr(<<Str(GUEST)>>)]_vars
  /\ [][\A u \in Users :
          (/\ \A i \in TokenIds : tokens[i].uid # u
           /\ outcome' = Rejected("signUp", u, "setCustomUserClaims")) =>
            /\ Len(tokens') = Len(tokens) + 1
            /\ tokens'[Len(tokens')].uid = u
            /\ stored'[u] = Undef
            /\ written'[u] = NoWrite]_vars
  /\ [](\A u \in Users :
          (\E i \in TokenIds : tokens[i].uid = u) =>
            authorizationContext(tokens[SignUpToken(u)]).roles
              = Arr(<<Str(GUEST)>>))
  /\ [](\A i \in TokenIds :
          (/\ i # SignUpToken(tokens[i].uid)
           /\ issued[i].kind = "set"
           /\ written[tokens[i].uid].via = "signUp"
           /\ issued[i].p = written[tokens[i].uid].p) =>
            authorizationContext(tokens[i]).roles = Arr(<<Str(USER)>>))

\* signUp succeeded, the client holds the guest credential next to a
\* refreshed one that carries the user role
C30_Witness ==
  \E u \in Users :
    /\ outcome = Resolved("signUp", u)
    /\ Get(stored[u], "roles") = Arr(<<Str(USER)>>)
    /\ Len(tokens) = 2
    /\ authorizationContext(tokens[1]).roles = Arr(<<Str(GUEST)>>)
    /\ authorizationContext(tokens[2]).roles = Arr(<<Str(USER)>>)

====
